---- MODULE Spec2Model ----
(***************************************************************************)
(* A model of ketchup, the Kubernetes configuration collector:             *)
(*   k8s.rs     namespace verification, built-in listing and the hybrid    *)
(*              (discovery first, CRD-based second) custom resource        *)
(*              collection;                                                *)
(*   main.rs    the run: connect, verify, collect, save;                   *)
(*   output.rs  the save pass and its statistics.                          *)
(* JSON objects are records (a missing key is a key outside DOMAIN), JSON  *)
(* arrays and Vec are sequences, HashMap<String, _> is a function whose    *)
(* domain is a set of strings.  The Kubernetes API server is the           *)
(* environment: whether a call fails is chosen in the action issuing it.   *)
(***************************************************************************)
EXTENDS Integers, Sequences, FiniteSets, TLC

VARIABLES
    pc,                   \* position of the run in main()
    namespaces_arg,       \* args.namespaces: <<>> for None, <<list>> for Some
    include_custom,       \* args.include_custom_resources
    disable_suse_edge_analysis, \* args.disable_suse_edge_analysis
    raw,                  \* args.raw
    cluster_namespaces,   \* the namespaces of the cluster, as the API lists them
    requested,            \* requested_namespaces (main.rs:361)
    verified,             \* verified_namespaces (main.rs:368)
    abort,                \* why main returned Err, "" while it has not
    kindIdx,              \* next built-in namespaced kind to collect
    namespaced_resources, \* HashMap built by collect_namespaced_resources
    crds,                 \* the definitions collect_all_custom_resources got
    crdIdx,               \* next definition of its loop
    all_custom_resources, \* its HashMap under construction
    crLog,                \* history: what each loop iteration did
    discoveryFetches,     \* history: the discovery documents fetched so far
    clusterIdx,           \* next cluster-scoped kind to collect
    cluster_resources,    \* HashMap built by collect_cluster_resources
    saveIdx,              \* next verified namespace of the save loop
    files,                \* the output directory: path -> document written
    total_sanitization_stats, \* main.rs:411
    listCalls,            \* history: every resource list call issued, in order
    contained,            \* history: the non-fatal failures met so far
    edge_analysis,        \* main.rs:384: the detector's report, once computed
    document,             \* a document handed to the sanitizer on its own
    passes,               \* what each successive sanitizer call returned for it
    sanitization_stats    \* output.rs:360: the counters of one save pass

argVars == <<namespaces_arg, include_custom, raw, disable_suse_edge_analysis>>
nsVars == <<cluster_namespaces, requested, verified>>
builtinVars == <<kindIdx, namespaced_resources, clusterIdx, cluster_resources>>
crVars == <<crds, crdIdx, all_custom_resources, crLog, discoveryFetches>>
saveVars == <<saveIdx, files, total_sanitization_stats>>
reportVars == <<edge_analysis>>
sanVars == <<document, passes, sanitization_stats>>

vars == <<pc, abort, argVars, nsVars, builtinVars, crVars, saveVars,
          listCalls, contained, reportVars, sanVars>>

(***************************************************************************)
(* Bounds of the model.                                                    *)
(***************************************************************************)
MaxCrds == 2        \* longest list of custom resource definitions
MaxRequested == 2   \* longest --namespaces list
MaxPorts == 2       \* longest spec.ports of a Service
MaxPasses == 2      \* sanitizer calls in a row on one document
MaxRecorded == 4    \* documents recorded in the counters of one run

(***************************************************************************)
(* Generic helpers.                                                        *)
(***************************************************************************)
Has(obj, k) == k \in DOMAIN obj

MinOf(S) == CHOOSE x \in S : \A y \in S : x <= y

RECURSIVE Concat(_)
Concat(ss) == IF ss = <<>> THEN <<>> ELSE Head(ss) \o Concat(Tail(ss))

SeqsUpTo(S, n) == UNION {[1..k -> S] : k \in 0..n}

DistinctSeqsUpTo(S, n) ==
    {s \in SeqsUpTo(S, n) : \A i, j \in 1..Len(s) : i # j => s[i] # s[j]}

EmptyMap == <<>>

\* the values of the variables a specification does not use
NotAnalysed == [some |-> FALSE, computed |-> FALSE]
NoDocument == <<>>

\* SanitizationStats::new() (output.rs:75)
NewStats == [total_processed |-> 0, total_sanitized |-> 0, total_skipped |-> 0,
             skipped_resources |-> <<>>]

MapInsert(m, k, v) == [x \in DOMAIN m \cup {k} |-> IF x = k THEN v ELSE m[x]]

(***************************************************************************)
(* The cluster: namespaces, custom resource definitions, live custom       *)
(* objects and the discovery documents the API server may answer with.     *)
(***************************************************************************)
AllNamespaces == "*"     \* the target of a cluster-wide list call

CrdDoc(name, group, plural, scope, versions) ==
    [kind |-> "CustomResourceDefinition",
     metadata |-> [name |-> name],
     spec |-> [group |-> group, names |-> [plural |-> plural],
               scope |-> scope, versions |-> versions]]

V(name, served) == [name |-> name, served |-> served]

CrdWidgets == CrdDoc("widgets.example.com", "example.com", "widgets",
                     "Namespaced", <<V("v1", TRUE)>>)
\* another group exposing the same plural with the same scope
CrdWidgetsOther == CrdDoc("widgets.other.io", "other.io", "widgets",
                          "Namespaced", <<V("v1", TRUE)>>)
CrdGadgets == CrdDoc("gadgets.example.com", "example.com", "gadgets",
                     "Cluster", <<V("v1", TRUE)>>)
\* no spec.group, no spec.scope, first version not served
CrdLegacy ==
    [kind |-> "CustomResourceDefinition",
     metadata |-> [name |-> "legacies"],
     spec |-> [names |-> [plural |-> "legacies"],
               versions |-> <<V("v1beta1", FALSE), V("v1", TRUE)>>]]
CrdNoServed == CrdDoc("things.example.com", "example.com", "things",
                      "Namespaced", <<V("v1alpha1", FALSE), V("v1", FALSE)>>)
CrdNoName ==
    [kind |-> "CustomResourceDefinition",
     metadata |-> [uid |-> "u-1"],
     spec |-> [group |-> "example.com", names |-> [plural |-> "widgets"],
               scope |-> "Namespaced", versions |-> <<V("v1", TRUE)>>]]
CrdNoPlural ==
    [kind |-> "CustomResourceDefinition",
     metadata |-> [name |-> "widgets.example.com"],
     spec |-> [group |-> "example.com", names |-> [kind |-> "Widget"],
               scope |-> "Namespaced", versions |-> <<V("v1", TRUE)>>]]

CrdCatalogue == {CrdWidgets, CrdWidgetsOther, CrdGadgets, CrdLegacy,
                 CrdNoServed, CrdNoName, CrdNoPlural}

\* The custom objects stored in the cluster, with the API resource
\* (group, plural) each is stored under; namespace "" is a cluster-scoped one.
Live(group, plural, ns, name) ==
    [group |-> group, plural |-> plural, namespace |-> ns, name |-> name]

LiveCustomObjects ==
    << Live("example.com", "widgets", "ns1", "w1"),
       Live("example.com", "widgets", "ns2", "w2"),
       Live("other.io", "widgets", "ns1", "o1"),
       Live("example.com", "gadgets", "", "gd1"),
       Live("", "legacies", "ns2", "l1") >>

\* DynamicObject serialised by serde_json::to_value
InstanceDoc(o) ==
    IF o.namespace = ""
    THEN [apiVersion |-> IF o.group = "" THEN "v1" ELSE o.group \o "/v1",
          kind |-> o.plural,
          metadata |-> [name |-> o.name, uid |-> "uid-" \o o.name]]
    ELSE [apiVersion |-> IF o.group = "" THEN "v1" ELSE o.group \o "/v1",
          kind |-> o.plural,
          metadata |-> [name |-> o.name, namespace |-> o.namespace,
                        uid |-> "uid-" \o o.name]]

\* api.list(): the objects of one API resource in one namespace, or in all
ApiList(group, plural, ns) ==
    LET stored == SelectSeq(LiveCustomObjects,
                            LAMBDA o : /\ o.group = group
                                       /\ o.plural = plural
                                       /\ (ns = AllNamespaces \/ o.namespace = ns))
    IN  [i \in 1..Len(stored) |-> InstanceDoc(stored[i])]

\* One (ApiResource, ApiCapabilities) pair of a discovered group
Entry(group, version, plural, scope) ==
    [group |-> group, version |-> version, plural |-> plural, scope |-> scope]

GroupExample == << Entry("example.com", "v1", "widgets", "Namespaced"),
                   Entry("example.com", "v1", "gadgets", "Cluster") >>
GroupOther == << Entry("other.io", "v1", "widgets", "Namespaced") >>

\* Discovery::run(): it fails, or yields the groups in the order their
\* HashMap iterates them; a group may be missing (stale cache, aggregated
\* endpoint unavailable, type created a moment ago).
DiscoveryFailed == [ok |-> FALSE, groups |-> <<>>]
Discovered(groups) == [ok |-> TRUE, groups |-> groups]

DiscoveryOutcomes ==
    {DiscoveryFailed, Discovered(<<>>),
     Discovered(<<GroupExample, GroupOther>>),
     Discovered(<<GroupOther, GroupExample>>)}

(***************************************************************************)
(* parse_crd_info (k8s.rs:334)                                             *)
(***************************************************************************)
ParseErr == [tag |-> "Err", info |-> <<>>]
ParseNone == [tag |-> "None", info |-> <<>>]
ParseSome(info) == [tag |-> "Some", info |-> info]

CustomResourceInfo(group, version, plural, namespaced) ==
    [group |-> group, version |-> version, plural |-> plural,
     namespaced |-> namespaced]

\* the indices of the version entries the loop of k8s.rs:363 accepts
ServedVersions(versions) ==
    {i \in 1..Len(versions) :
        /\ Has(versions[i], "name")
        /\ Has(versions[i], "served")
        /\ versions[i].served}

\* a slip: the first version entry is taken whether it is served or not
parse_crd_info_first_version(crd) ==
    IF ~Has(crd, "metadata") \/ ~Has(crd, "spec") THEN ParseErr
    ELSE IF ~Has(crd.metadata, "name") THEN ParseErr
    ELSE IF ~Has(crd.spec, "names") THEN ParseErr
    ELSE IF ~Has(crd.spec.names, "plural") THEN ParseErr
    ELSE IF ~Has(crd.spec, "versions") THEN ParseErr
    ELSE IF crd.spec.versions = <<>> THEN ParseNone
    ELSE ParseSome(CustomResourceInfo(
            IF Has(crd.spec, "group") THEN crd.spec.group ELSE "",
            crd.spec.versions[1].name,
            crd.spec.names.plural,
            (IF Has(crd.spec, "scope") THEN crd.spec.scope ELSE "Namespaced")
                = "Namespaced"))

parse_crd_info(crd) ==
    IF ~Has(crd, "metadata") THEN ParseErr
    ELSE IF ~Has(crd, "spec") THEN ParseErr
    ELSE IF ~Has(crd.metadata, "name") THEN ParseErr
    ELSE IF ~Has(crd.spec, "names") THEN ParseErr
    ELSE IF ~Has(crd.spec.names, "plural") THEN ParseErr
    ELSE IF ~Has(crd.spec, "versions") THEN ParseErr
    ELSE LET spec == crd.spec
             group == IF Has(spec, "group") THEN spec.group ELSE ""
             scope == IF Has(spec, "scope") THEN spec.scope ELSE "Namespaced"
             served == ServedVersions(spec.versions)
         IN  IF served = {} THEN ParseNone
             ELSE ParseSome(CustomResourceInfo(
                     group, spec.versions[MinOf(served)].name,
                     spec.names.plural, scope = "Namespaced"))

(***************************************************************************)
(* Phase 1: discovery-based collection (k8s.rs:474, 604, 643)              *)
(***************************************************************************)
ListCall(phase, group, version, plural, ns, ok) ==
    [phase |-> phase, group |-> group, version |-> version,
     plural |-> plural, namespace |-> ns, ok |-> ok]

\* Result<Vec<Value>> of one per-namespace (or cluster-wide) collection,
\* with the list calls it issued
CallOk(items, calls) == [ok |-> TRUE, items |-> items, calls |-> calls]
CallErr(calls) == [ok |-> FALSE, items |-> <<>>, calls |-> calls]

RECURSIVE Flatten(_)
Flatten(groups) ==
    IF groups = <<>> THEN <<>> ELSE Head(groups) \o Flatten(Tail(groups))

\* the positions, in the order of the nested loops over discovery.groups()
\* and group.recommended_resources(), whose plural and scope match
MatchingEntries(discovery, plural, scope) ==
    {i \in 1..Len(Flatten(discovery.groups)) :
        /\ Flatten(discovery.groups)[i].plural = plural
        /\ Flatten(discovery.groups)[i].scope = scope}

\* `fails`: the API server answers this list call with an error
collect_namespaced_custom_resource_discovery(discovery, plural, namespace, fails) ==
    LET found == MatchingEntries(discovery, plural, "Namespaced")
    IN  IF found = {} THEN CallErr(<<>>)
        ELSE LET api_resource == Flatten(discovery.groups)[MinOf(found)]
                 call(ok) == ListCall(1, api_resource.group, api_resource.version,
                                      api_resource.plural, namespace, ok)
             IN  IF fails THEN CallErr(<<call(FALSE)>>)
                 ELSE CallOk(ApiList(api_resource.group, api_resource.plural,
                                     namespace),
                             <<call(TRUE)>>)

collect_cluster_custom_resource_discovery(discovery, plural, fails) ==
    LET found == MatchingEntries(discovery, plural, "Cluster")
    IN  IF found = {} THEN CallErr(<<>>)
        ELSE LET api_resource == Flatten(discovery.groups)[MinOf(found)]
                 call(ok) == ListCall(1, api_resource.group, api_resource.version,
                                      api_resource.plural, AllNamespaces, ok)
             IN  IF fails THEN CallErr(<<call(FALSE)>>)
                 ELSE CallOk(ApiList(api_resource.group, api_resource.plural,
                                     AllNamespaces),
                             <<call(TRUE)>>)

\* Result<Vec<Value>> of a phase, with the list calls it issued
PhaseOk(instances, calls) == [ok |-> TRUE, instances |-> instances, calls |-> calls]
PhaseErr == [ok |-> FALSE, instances |-> <<>>, calls |-> <<>>]

\* the loop of k8s.rs:486 from position i on; F holds the positions of the
\* namespaces whose list call the API server fails
RECURSIVE discovery_namespace_loop(_, _, _, _, _, _)
discovery_namespace_loop(discovery, plural, namespaces, F, i, acc) ==
    IF i > Len(namespaces) THEN acc
    ELSE LET r == collect_namespaced_custom_resource_discovery(
                      discovery, plural, namespaces[i], i \in F)
         IN  discovery_namespace_loop(
                 discovery, plural, namespaces, F, i + 1,
                 PhaseOk(IF r.ok THEN acc.instances \o r.items ELSE acc.instances,
                         acc.calls \o r.calls))

\* a slip: a failed list call is propagated with `?`
collect_custom_resource_instances_discovery_propagating(cr_info, namespaces, discovery, F) ==
    IF ~discovery.ok THEN PhaseErr
    ELSE LET r == IF cr_info.namespaced
                  THEN discovery_namespace_loop(discovery, cr_info.plural,
                                                namespaces, F, 1, PhaseOk(<<>>, <<>>))
                  ELSE LET c == collect_cluster_custom_resource_discovery(
                                    discovery, cr_info.plural, 1 \in F)
                       IN  PhaseOk(c.items, c.calls)
         IN  IF \E k \in 1..Len(r.calls) : ~r.calls[k].ok THEN PhaseErr ELSE r

collect_custom_resource_instances_discovery(cr_info, namespaces, discovery, F) ==
    IF ~discovery.ok THEN PhaseErr      \* Discovery::run().await?
    ELSE IF cr_info.namespaced
    THEN discovery_namespace_loop(discovery, cr_info.plural, namespaces, F, 1,
                                  PhaseOk(<<>>, <<>>))
    ELSE LET r == collect_cluster_custom_resource_discovery(
                      discovery, cr_info.plural, 1 \in F)
         IN  PhaseOk(r.items, r.calls)

(***************************************************************************)
(* Phase 2: CRD-based collection (k8s.rs:525, 678, 720)                    *)
(***************************************************************************)
\* api_version as its '/'-separated parts: format!("{}/{}", group, version),
\* or the version alone when the group is empty (k8s.rs:530)
ApiVersion(cr_info) ==
    IF cr_info.group = "" THEN <<cr_info.version>>
    ELSE <<cr_info.group, cr_info.version>>

\* k8s.rs:690: (parts[0], parts[1]) if api_version contains '/'
SplitApiVersion(api_version) ==
    IF Len(api_version) > 1
    THEN [group |-> api_version[1], version |-> api_version[2]]
    ELSE [group |-> "", version |-> api_version[1]]

collect_namespaced_custom_resource_crd_based(api_version, plural, namespace, fails) ==
    LET gv == SplitApiVersion(api_version)
        call(ok) == ListCall(2, gv.group, gv.version, plural, namespace, ok)
    IN  IF fails THEN CallErr(<<call(FALSE)>>)
        ELSE CallOk(ApiList(gv.group, plural, namespace), <<call(TRUE)>>)

collect_cluster_custom_resource_crd_based(api_version, plural, fails) ==
    LET gv == SplitApiVersion(api_version)
        call(ok) == ListCall(2, gv.group, gv.version, plural, AllNamespaces, ok)
    IN  IF fails THEN CallErr(<<call(FALSE)>>)
        ELSE CallOk(ApiList(gv.group, plural, AllNamespaces), <<call(TRUE)>>)

\* a slip: the loop stops at the first namespace whose list call fails
RECURSIVE crd_based_namespace_loop_breaking(_, _, _, _, _, _)
crd_based_namespace_loop_breaking(api_version, plural, namespaces, F, i, acc) ==
    IF i > Len(namespaces) THEN acc
    ELSE LET r == collect_namespaced_custom_resource_crd_based(
                      api_version, plural, namespaces[i], i \in F)
         IN  IF ~r.ok THEN PhaseOk(acc.instances, acc.calls \o r.calls)
             ELSE crd_based_namespace_loop_breaking(
                      api_version, plural, namespaces, F, i + 1,
                      PhaseOk(acc.instances \o r.items, acc.calls \o r.calls))

\* the loop of k8s.rs:545 from position i on
RECURSIVE crd_based_namespace_loop(_, _, _, _, _, _)
crd_based_namespace_loop(api_version, plural, namespaces, F, i, acc) ==
    IF i > Len(namespaces) THEN acc
    ELSE LET r == collect_namespaced_custom_resource_crd_based(
                      api_version, plural, namespaces[i], i \in F)
         IN  crd_based_namespace_loop(
                 api_version, plural, namespaces, F, i + 1,
                 PhaseOk(IF r.ok THEN acc.instances \o r.items ELSE acc.instances,
                         acc.calls \o r.calls))

collect_custom_resource_instances_crd_based(cr_info, namespaces, F) ==
    IF cr_info.namespaced
    THEN crd_based_namespace_loop(ApiVersion(cr_info), cr_info.plural,
                                  namespaces, F, 1, PhaseOk(<<>>, <<>>))
    ELSE LET r == collect_cluster_custom_resource_crd_based(
                      ApiVersion(cr_info), cr_info.plural, 1 \in F)
         IN  PhaseOk(r.items, r.calls)

(***************************************************************************)
(* The hybrid resolver (k8s.rs:442) and the loop body of                   *)
(* collect_all_custom_resources (k8s.rs:396)                               *)
(***************************************************************************)
Resolved(ok, instances, calls, phase1, phase2) ==
    [ok |-> ok, instances |-> instances, calls |-> calls,
     phase1 |-> phase1,     \* "ok" or "failed"
     phase2 |-> phase2]     \* "ok", "failed", or "none" when it did not run

collect_custom_resource_instances_hybrid(cr_info, namespaces, discovery, F) ==
    LET p1 == collect_custom_resource_instances_discovery(
                  cr_info, namespaces, discovery, F)
    IN  IF p1.ok
        THEN Resolved(TRUE, p1.instances, p1.calls, "ok", "none")
        ELSE LET p2 == collect_custom_resource_instances_crd_based(
                           cr_info, namespaces, F)
             IN  Resolved(p2.ok, p2.instances, p2.calls, "failed",
                          IF p2.ok THEN "ok" ELSE "failed")

\* a slip: the separator and the group are appended unconditionally
resource_key_always_dotted(cr_info) == cr_info.plural \o "." \o cr_info.group

\* k8s.rs:410
resource_key(cr_info) ==
    IF cr_info.group = "" THEN cr_info.plural
    ELSE cr_info.plural \o "." \o cr_info.group

\* a slip: the instances are inserted even when there are none
insert_instances_unconditional(map, cr_info, resolved) ==
    IF resolved.ok THEN MapInsert(map, resource_key(cr_info), resolved.instances)
    ELSE map

\* k8s.rs:408-429: the match on the resolver's result
insert_instances(map, cr_info, resolved) ==
    IF resolved.ok /\ resolved.instances # <<>>
    THEN MapInsert(map, resource_key(cr_info), resolved.instances)
    ELSE map

\* a slip: a definition that does not parse ends the loop
next_crd_index_breaking(parsed, i, n) == IF parsed.tag = "Some" THEN i + 1 ELSE n + 1

\* k8s.rs:396-397: the for loop goes on to the next definition whatever
\* parse_crd_info and the resolver returned
next_crd_index(parsed, i, n) == i + 1

\* the positions of the list calls a descriptor's resolution may issue
CallSlots(cr_info, namespaces) ==
    IF cr_info.namespaced THEN 1..Len(namespaces) ELSE {1}

\* the positions of the list calls it does issue under a discovery outcome:
\* none when the document was fetched and holds no matching entry
IssuedSlots(cr_info, namespaces, discovery) ==
    IF /\ discovery.ok
       /\ \A k \in 1..Len(Flatten(discovery.groups)) :
             \/ Flatten(discovery.groups)[k].plural # cr_info.plural
             \/ Flatten(discovery.groups)[k].scope #
                   (IF cr_info.namespaced THEN "Namespaced" ELSE "Cluster")
    THEN {}
    ELSE CallSlots(cr_info, namespaces)

NoInfo == CustomResourceInfo("", "", "", FALSE)

LogEntry(i, parsed, discovery, F, resolved) ==
    [idx |-> i, tag |-> parsed.tag,
     info |-> IF parsed.tag = "Some" THEN parsed.info ELSE NoInfo,
     discovery |-> discovery, F |-> F, resolved |-> resolved]

NotResolved == Resolved(FALSE, <<>>, <<>>, "none", "none")

\* One iteration of the loop of collect_all_custom_resources.
ProcessCrd ==
    /\ pc = "custom"
    /\ crdIdx <= Len(crds)
    /\ LET parsed == parse_crd_info(crds[crdIdx])
       IN  /\ IF parsed.tag = "Some"
              THEN \E discovery \in DiscoveryOutcomes :
                   \E F \in SUBSET IssuedSlots(parsed.info, verified, discovery) :
                      LET r == collect_custom_resource_instances_hybrid(
                                   parsed.info, verified, discovery, F)
                      IN  /\ all_custom_resources' =
                                insert_instances(all_custom_resources, parsed.info, r)
                          /\ crLog' = Append(crLog,
                                LogEntry(crdIdx, parsed, discovery, F, r))
                          /\ discoveryFetches' = Append(discoveryFetches, discovery)
                          /\ listCalls' = listCalls \o r.calls
                          /\ contained' = contained
                                \cup (IF discovery.ok THEN {} ELSE {"discovery"})
                                \cup (IF \E k \in 1..Len(r.calls) : ~r.calls[k].ok
                                      THEN {"custom resource list"} ELSE {})
              ELSE /\ crLog' = Append(crLog,
                         LogEntry(crdIdx, parsed, DiscoveryFailed, {}, NotResolved))
                   /\ UNCHANGED <<all_custom_resources, discoveryFetches,
                                  listCalls, contained>>
           /\ crdIdx' = next_crd_index(parsed, crdIdx, Len(crds))
    /\ UNCHANGED <<pc, abort, argVars, nsVars, builtinVars, crds, saveVars>>
    /\ UNCHANGED <<reportVars, sanVars>>

\* resources.insert(cr_type, cr_instances) for every collected type
RECURSIVE MapMerge(_, _)
MapMerge(into, from) ==
    IF DOMAIN from = {} THEN into
    ELSE LET k == CHOOSE x \in DOMAIN from : TRUE
         IN  MapMerge(MapInsert(into, k, from[k]),
                      [x \in DOMAIN from \ {k} |-> from[x]])

\* The loop is over: collect_all_custom_resources returns its map
\* (k8s.rs:438) and collect_namespaced_resources adds every type of it to
\* the namespaced resources and returns (main.rs:250, 271).
FinishCustom ==
    /\ pc = "custom"
    /\ crdIdx > Len(crds)
    /\ namespaced_resources' = MapMerge(namespaced_resources, all_custom_resources)
    /\ pc' = "cluster"
    /\ UNCHANGED <<abort, argVars, nsVars, kindIdx, clusterIdx, cluster_resources,
                   crVars, saveVars, listCalls, contained>>
    /\ UNCHANGED <<reportVars, sanVars>>

(***************************************************************************)
(* The custom resource collection on its own: collect_all_custom_resources *)
(* called with any list of definitions and any verified namespaces.        *)
(***************************************************************************)
TargetNamespaceLists == {<<"ns2">>, <<"ns1", "ns2">>, <<"ns2", "ns1">>}

InitCR ==
    /\ pc = "custom"
    /\ namespaces_arg = <<>>
    /\ include_custom = TRUE
    /\ raw = FALSE
    /\ disable_suse_edge_analysis = FALSE
    /\ cluster_namespaces = <<"ns1", "ns2">>
    /\ requested = <<>>
    /\ verified \in TargetNamespaceLists
    /\ abort = ""
    /\ kindIdx = 1
    /\ namespaced_resources = EmptyMap
    /\ crds \in DistinctSeqsUpTo(CrdCatalogue, MaxCrds)
    /\ crdIdx = 1
    /\ all_custom_resources = EmptyMap
    /\ crLog = <<>>
    /\ discoveryFetches = <<>>
    /\ clusterIdx = 1
    /\ cluster_resources = EmptyMap
    /\ saveIdx = 1
    /\ files = EmptyMap
    /\ total_sanitization_stats = NewStats
    /\ listCalls = <<>>
    /\ contained = {}
    /\ edge_analysis = NotAnalysed
    /\ document = NoDocument
    /\ passes = <<>>
    /\ sanitization_stats = NewStats

NextCR == ProcessCrd \/ FinishCustom

SpecCR == InitCR /\ [][NextCR]_vars

(***************************************************************************)
(* Properties of the custom resource collection.                           *)
(***************************************************************************)
ScopeOf(cr_info) == IF cr_info.namespaced THEN "Namespaced" ELSE "Cluster"

Resolutions == {crLog[k] : k \in {j \in 1..Len(crLog) : crLog[j].tag = "Some"}}

\* the items of the list calls that succeeded, in call order
ItemsOfSuccessfulCalls(calls) ==
    Concat([k \in 1..Len(calls) |->
               IF calls[k].ok
               THEN ApiList(calls[k].group, calls[k].plural, calls[k].namespace)
               ELSE <<>>])

\* C1: for every descriptor, if the discovery document has no entry whose
\* plural and scope match it, phase 2 runs and the resolver returns what
\* phase 2 lists.
C1_FallbackWhenEntryMissing ==
    \A e \in Resolutions :
        MatchingEntries(e.discovery, e.info.plural, ScopeOf(e.info)) = {}
        => /\ e.resolved.phase2 # "none"
           /\ e.resolved.instances =
                  collect_custom_resource_instances_crd_based(
                      e.info, verified, e.F).instances

\* C2: when phase 1 locates the matching discovery entry, a failing list
\* call (one namespace's, or the cluster-wide one) neither fails phase 1 nor
\* starts phase 2: the resolver returns the phase-1 result, which holds
\* nothing for the failed calls and may be empty.
C2_ListFailureContainedInPhase1 ==
    \A e \in Resolutions :
        LET found == MatchingEntries(e.discovery, e.info.plural, ScopeOf(e.info))
            entry == Flatten(e.discovery.groups)[MinOf(found)]
            slots == CallSlots(e.info, verified)
            target(k) == IF e.info.namespaced THEN verified[k] ELSE AllNamespaces
        IN  (e.discovery.ok /\ found # {})
            => /\ e.resolved.ok
               /\ e.resolved.phase1 = "ok"
               /\ e.resolved.phase2 = "none"
               /\ \A k \in 1..Len(e.resolved.calls) : e.resolved.calls[k].phase = 1
               /\ e.resolved.instances =
                      Concat([k \in slots |->
                                 IF k \in e.F THEN <<>>
                                 ELSE ApiList(entry.group, entry.plural, target(k))])

C2_Witness ==
    \E e \in Resolutions :
        /\ e.discovery.ok
        /\ MatchingEntries(e.discovery, e.info.plural, ScopeOf(e.info)) # {}
        /\ e.F = CallSlots(e.info, verified)
        /\ Len(verified) = 2
        /\ e.resolved.instances = <<>>
        /\ e.resolved.phase2 = "none"

\* C3: the discovery document is fetched at most once in a run and every
\* descriptor is resolved against that one snapshot.
C3_DiscoveryFetchedAtMostOnce ==
    /\ Len(discoveryFetches) <= 1
    /\ \A e1, e2 \in Resolutions : e1.discovery = e2.discovery

\* C4: a definition none of whose versions is served yields no descriptor,
\* no discovery fetch and no list call, and the loop goes on; a descriptor
\* that is built has the name of the first served version, in list order.
C4_NoServedVersionSkipped ==
    /\ \A k \in 1..Len(crLog) :
          LET crd == crds[crLog[k].idx]
              versions == crd.spec.versions
          IN  /\ (\A j \in 1..Len(versions) : ~versions[j].served)
                    => /\ crLog[k].tag # "Some"
                       /\ crLog[k].resolved.calls = <<>>
                       /\ crLog[k].resolved.phase1 = "none"
                       /\ crLog[k].resolved.phase2 = "none"
                       /\ crdIdx > crLog[k].idx
              /\ crLog[k].tag = "Some"
                    => \E j \in 1..Len(versions) :
                          /\ versions[j].served
                          /\ crLog[k].info.version = versions[j].name
                          /\ \A i \in 1..(j - 1) : ~versions[i].served
    /\ Len(discoveryFetches) = Cardinality({k \in 1..Len(crLog) : crLog[k].tag = "Some"})
    /\ pc = "custom" =>
          Len(listCalls) = Len(Concat([k \in 1..Len(crLog) |-> crLog[k].resolved.calls]))

C4_Witness ==
    /\ Len(crLog) = 2
    /\ crds[1] = CrdNoServed
    /\ crLog[1].tag = "None"
    /\ crds[2] = CrdLegacy
    /\ crLog[2].tag = "Some"
    /\ crLog[2].info.version = "v1"
    /\ listCalls # <<>>

\* C5: in both phases, for a namespaced descriptor, every target namespace
\* gets its list call (when the API resource is known) in namespace order,
\* and the instances returned are the concatenation of the items of the
\* calls that succeeded: a failed call removes nothing of another namespace.
C5_NamespaceFailureContainment ==
    \A e \in Resolutions :
        e.info.namespaced
        => LET calls == e.resolved.calls
               known == \/ ~e.discovery.ok
                        \/ MatchingEntries(e.discovery, e.info.plural,
                                           "Namespaced") # {}
           IN  /\ e.resolved.ok
               /\ known => /\ Len(calls) = Len(verified)
                           /\ \A k \in 1..Len(calls) :
                                 /\ calls[k].namespace = verified[k]
                                 /\ calls[k].ok = (k \notin e.F)
                                 /\ calls[k].phase = IF e.discovery.ok THEN 1 ELSE 2
               /\ ~known => calls = <<>>
               /\ e.resolved.instances = ItemsOfSuccessfulCalls(calls)

C5_Witness ==
    /\ \E e \in Resolutions :      \* phase 2: a failure before a success
          /\ e.info.namespaced /\ ~e.discovery.ok
          /\ Len(verified) = 2 /\ e.F = {1}
          /\ e.resolved.instances # <<>>
    /\ \E e \in Resolutions :      \* phase 1: a failure after a success
          /\ e.info.namespaced /\ e.discovery.ok
          /\ Len(verified) = 2 /\ e.F = {2}
          /\ e.resolved.instances # <<>>

Range(s) == {s[k] : k \in DOMAIN s}

\* C6: for every descriptor that a working discovery entry and the manually
\* constructed endpoint both reach, phase 1 and phase 2, each run on its
\* own with no failing call, return the same set of instances.
C6_PhasesAgree ==
    \A e \in Resolutions :
        (/\ e.discovery.ok
         /\ \E k \in 1..Len(Flatten(e.discovery.groups)) :
               /\ Flatten(e.discovery.groups)[k].group = e.info.group
               /\ Flatten(e.discovery.groups)[k].plural = e.info.plural
               /\ Flatten(e.discovery.groups)[k].scope = ScopeOf(e.info))
        => Range(collect_custom_resource_instances_discovery(
                     e.info, verified, e.discovery, {}).instances)
           = Range(collect_custom_resource_instances_crd_based(
                     e.info, verified, {}).instances)

\* the resolutions that collected at least one instance
Collected == {e \in Resolutions : e.resolved.ok /\ e.resolved.instances # <<>>}

C8_DescriptorsResolvedIndependently ==
    /\ crdIdx = Len(crLog) + 1
    /\ \A k \in 1..Len(crLog) :
          LET e == crLog[k]
              crd == crds[k]
              wellFormed == /\ Has(crd.metadata, "name")
                            /\ Has(crd.spec.names, "plural")
                            /\ \E j \in 1..Len(crd.spec.versions) :
                                  crd.spec.versions[j].served
          IN  /\ e.idx = k
              /\ (e.tag = "Some") = wellFormed
              /\ ~wellFormed => e.resolved = NotResolved
              /\ wellFormed =>
                    /\ e.info.plural = crd.spec.names.plural
                    /\ e.resolved = collect_custom_resource_instances_hybrid(
                                        e.info, verified, e.discovery, e.F)
                    /\ e.resolved.instances # <<>> =>
                          all_custom_resources[
                              IF e.info.group = "" THEN e.info.plural
                              ELSE e.info.plural \o "." \o e.info.group]
                             = e.resolved.instances

C8_Witness ==
    /\ crdIdx > Len(crds)
    /\ Len(crLog) = 2
    /\ crLog[1].tag = "Err"
    /\ crLog[2].tag = "Some"
    /\ crLog[2].resolved.instances # <<>>
    /\ DOMAIN all_custom_resources = {"widgets.example.com"}

(***************************************************************************)
(* Namespace verification (k8s.rs:72)                                      *)
(***************************************************************************)
Contains(seq, x) == \E k \in 1..Len(seq) : seq[k] = x

\* the loop of k8s.rs:76 from position i on
RECURSIVE verify_loop(_, _, _, _)
verify_loop(available, requested_, i, acc) ==
    IF i > Len(requested_) THEN acc
    ELSE verify_loop(available, requested_, i + 1,
                     IF Contains(available, requested_[i])
                     THEN Append(acc, requested_[i]) ELSE acc)

VerifyOk(names) == [ok |-> TRUE, err |-> "", verified |-> names]
VerifyErr(err) == [ok |-> FALSE, err |-> err, verified |-> <<>>]

\* a slip: the empty result is returned instead of an error
verify_namespaces_allowing_empty(available, requested_, listed) ==
    IF ~listed THEN VerifyErr("Failed to list namespaces")
    ELSE VerifyOk(verify_loop(available, requested_, 1, <<>>))

\* `listed`: whether list_namespaces() succeeded
verify_namespaces(available, requested_, listed) ==
    IF ~listed THEN VerifyErr("Failed to list namespaces")
    ELSE LET names == verify_loop(available, requested_, 1, <<>>)
         IN  IF names = <<>> THEN VerifyErr("No valid namespaces found")
             ELSE VerifyOk(names)

(***************************************************************************)
(* Built-in kinds (k8s.rs:92, 270; main.rs:63, 274)                        *)
(***************************************************************************)
\* Of the twenty-two namespaced and the five cluster-scoped kinds, all
\* collected by the same two generic methods, the model keeps these.
NamespacedKinds == <<"pods", "services">>
ClusterKinds == <<"clusterroles", "nodes">>

Builtin(resource, doc) == [resource |-> resource, doc |-> doc]

LiveBuiltinObjects ==
    << Builtin("pods",
           [apiVersion |-> "v1", kind |-> "Pod",
            metadata |-> [name |-> "p1", namespace |-> "ns1", uid |-> "uid-p1",
                          resourceVersion |-> "11"],
            spec |-> [nodeName |-> "n1"],
            status |-> [phase |-> "Running"]]),
       Builtin("pods",
           [apiVersion |-> "v1", kind |-> "Pod",
            metadata |-> [name |-> "p2", namespace |-> "ns2", uid |-> "uid-p2",
                          resourceVersion |-> "12"],
            spec |-> [nodeName |-> "n1"],
            status |-> [phase |-> "Pending"]]),
       Builtin("services",
           [apiVersion |-> "v1", kind |-> "Service",
            metadata |-> [name |-> "s1", namespace |-> "ns1", uid |-> "uid-s1"],
            spec |-> [clusterIP |-> "10.0.0.1",
                      ports |-> <<[port |-> 80, nodePort |-> 30000]>>]]),
       Builtin("clusterroles",
           [apiVersion |-> "rbac.authorization.k8s.io/v1", kind |-> "ClusterRole",
            metadata |-> [name |-> "view", uid |-> "uid-cr1"]]),
       Builtin("clusterroles",
           [apiVersion |-> "rbac.authorization.k8s.io/v1", kind |-> "ClusterRole",
            metadata |-> [name |-> "system:k3s-controller", uid |-> "uid-cr2"]]),
       Builtin("nodes",
           [apiVersion |-> "v1", kind |-> "Node",
            metadata |-> [name |-> "n1", uid |-> "uid-n1"],
            spec |-> [podCIDR |-> "10.42.0.0/24", providerID |-> "k3s://n1"],
            status |-> [phase |-> "Ready",
                        nodeInfo |-> [kubeletVersion |-> "v1.30.8+k3s1"]]]) >>

\* the CustomResourceDefinition objects of the cluster of a whole run
ClusterCrds == <<CrdNoServed, CrdWidgets, CrdGadgets>>

\* api.list() of a built-in kind, serialised item by item
BuiltinList(resource, ns) ==
    LET stored == SelectSeq(LiveBuiltinObjects,
                            LAMBDA o : /\ o.resource = resource
                                       /\ \/ ns = AllNamespaces
                                          \/ /\ Has(o.doc.metadata, "namespace")
                                             /\ o.doc.metadata.namespace = ns)
    IN  [i \in 1..Len(stored) |-> stored[i].doc]

ListResult(ok, items, calls) == [ok |-> ok, items |-> items, calls |-> calls]

\* a slip: the loop stops at the first namespace whose list call fails
RECURSIVE collect_resources_loop_breaking(_, _, _, _, _)
collect_resources_loop_breaking(resource_name, namespaces, F, i, acc) ==
    IF i > Len(namespaces) THEN acc
    ELSE LET call == ListCall(0, "", "v1", resource_name, namespaces[i], i \notin F)
         IN  IF i \in F THEN ListResult(TRUE, acc.items, Append(acc.calls, call))
             ELSE collect_resources_loop_breaking(
                      resource_name, namespaces, F, i + 1,
                      ListResult(TRUE,
                                acc.items \o BuiltinList(resource_name, namespaces[i]),
                                Append(acc.calls, call)))

\* the loop of k8s.rs:105 from position i on; F holds the positions of the
\* namespaces whose list call fails
RECURSIVE collect_resources_loop(_, _, _, _, _)
collect_resources_loop(resource_name, namespaces, F, i, acc) ==
    IF i > Len(namespaces) THEN acc
    ELSE LET call == ListCall(0, "", "v1", resource_name, namespaces[i], i \notin F)
         IN  collect_resources_loop(
                 resource_name, namespaces, F, i + 1,
                 ListResult(TRUE,
                           IF i \in F THEN acc.items
                           ELSE acc.items \o BuiltinList(resource_name, namespaces[i]),
                           Append(acc.calls, call)))

collect_resources(resource_name, namespaces, F) ==
    collect_resources_loop(resource_name, namespaces, F, 1, ListResult(TRUE, <<>>, <<>>))

\* a slip: the list error is returned instead of an empty list
collect_cluster_resources_propagating(resource_name, items, fails) ==
    LET call == ListCall(0, "", "v1", resource_name, AllNamespaces, ~fails)
    IN  IF fails THEN ListResult(FALSE, <<>>, <<call>>)
        ELSE ListResult(TRUE, items, <<call>>)

\* k8s.rs:270; `items` is what the API server holds for the kind
collect_cluster_resources(resource_name, items, fails) ==
    LET call == ListCall(0, "", "v1", resource_name, AllNamespaces, ~fails)
    IN  IF fails THEN ListResult(TRUE, <<>>, <<call>>)
        ELSE ListResult(TRUE, items, <<call>>)

(***************************************************************************)
(* Sanitization and the save pass (output.rs:66, 185, 309)                 *)
(***************************************************************************)
Drop(obj, keys) == [k \in DOMAIN obj \ keys |-> obj[k]]

\* A JSON value that is not an object (a string, a number, an array) is
\* written NonObject(v), v its JSON text; Value::as_object_mut() is Some
\* exactly for the other values, and Value::get(key) is None on it.
NonObject(v) == [nonobject |-> v]
IsObject(value) == ~Has(value, "nonobject")

\* str::starts_with over the strings that occur in the model's documents
PrefixTable ==
    { <<"kubectl.kubernetes.io/last-applied-configuration", "kubectl.kubernetes.io/">>,
      <<"kubectl.kubernetes.io/restartedAt", "kubectl.kubernetes.io/">>,
      <<"deployment.kubernetes.io/revision", "deployment.kubernetes.io/">>,
      <<"kubernetes.io/pvc-protection", "kubernetes.io/">>,
      <<"kubernetes.io/pv-protection", "kubernetes.io/">>,
      <<"registry.suse.com/rancher/rancher-webhook:v0.5.0-sha256.1",
        "registry.suse.com">>,
      <<"registry.suse.com/longhornio/longhorn-ui:v1.7.2", "registry.suse.com">>,
      <<"registry.opensuse.org/tools/busybox", "registry.opensuse.org">>,
      <<"v2.9.1", "v">>,
      <<"v1.7.2", "v">>,
      <<"v0.5.0-sha256.1", "v">>,
      <<"vcr.example.io/rancher/rancher", "v">> }

StartsWith(str, prefix) == <<str, prefix>> \in PrefixTable

\* output.rs:204
KeepAnnotation(key) ==
    /\ ~StartsWith(key, "kubectl.kubernetes.io/")
    /\ ~StartsWith(key, "deployment.kubernetes.io/")
    /\ key # "control-plane.alpha.kubernetes.io/leader"

\* a slip: the emptiness test of output.rs:211 made before the retain
SanitizeAnnotations_emptiness_first(metadata) ==
    IF ~Has(metadata, "annotations") THEN metadata
    ELSE IF metadata.annotations = <<>> THEN Drop(metadata, {"annotations"})
    ELSE LET kept == {k \in DOMAIN metadata.annotations : KeepAnnotation(k)}
         IN  [metadata EXCEPT !.annotations = [k \in kept |-> @[k]]]

\* output.rs:200-214
SanitizeAnnotations(metadata) ==
    IF ~Has(metadata, "annotations") THEN metadata
    ELSE LET kept == {k \in DOMAIN metadata.annotations : KeepAnnotation(k)}
         IN  IF kept = {} THEN Drop(metadata, {"annotations"})
             ELSE [metadata EXCEPT !.annotations = [k \in kept |-> @[k]]]

\* output.rs:217-234
SanitizeFinalizers(metadata) ==
    IF ~Has(metadata, "finalizers") THEN metadata
    ELSE LET kept == SelectSeq(metadata.finalizers,
                               LAMBDA f : ~StartsWith(f, "kubernetes.io/"))
         IN  IF kept = <<>> THEN Drop(metadata, {"finalizers"})
             ELSE [metadata EXCEPT !.finalizers = kept]

\* the fields output.rs:192-197 remove from metadata
ServerMetadataFields ==
    {"uid", "resourceVersion", "creationTimestamp", "generation",
     "managedFields", "selfLink"}

\* a slip: metadata.generation is left in place
SanitizeMetadata_keeping_generation(obj) ==
    IF ~Has(obj, "metadata") THEN obj
    ELSE [obj EXCEPT !.metadata =
            SanitizeFinalizers(SanitizeAnnotations(
                Drop(@, ServerMetadataFields \ {"generation"})))]

\* output.rs:191-235
SanitizeMetadata(obj) ==
    IF ~Has(obj, "metadata") THEN obj
    ELSE [obj EXCEPT !.metadata =
            SanitizeFinalizers(SanitizeAnnotations(
                Drop(@, ServerMetadataFields)))]

AutoAssignedNodePortFrom == 30000

\* Value::as_u64().unwrap_or(0) of an integer JSON number: a negative
\* number is no u64
as_u64_unwrap_or_0(number) == IF number >= 0 THEN number ELSE 0

\* a slip: > in place of >= in output.rs:260
SanitizePort_above(port) ==
    IF Has(port, "nodePort")
       /\ as_u64_unwrap_or_0(port.nodePort) > AutoAssignedNodePortFrom
    THEN Drop(port, {"nodePort"})
    ELSE port

\* output.rs:256-265
SanitizePort(port) ==
    IF Has(port, "nodePort")
       /\ as_u64_unwrap_or_0(port.nodePort) >= AutoAssignedNodePortFrom
    THEN Drop(port, {"nodePort"})
    ELSE port

\* output.rs:249-267
SanitizeServiceSpec(spec) ==
    LET s1 == Drop(spec, {"clusterIP", "clusterIPs"})
    IN  IF ~Has(s1, "ports") THEN s1
        ELSE [s1 EXCEPT !.ports = [i \in 1..Len(@) |-> SanitizePort(@[i])]]

\* the spec keys output.rs:244 retains for a Node
NodeSpecKept == {"podCIDR", "podCIDRs", "taints"}

\* a slip: providerID is retained as well
SanitizeNodeSpec_keeping_provider(spec) ==
    [k \in DOMAIN spec \cap (NodeSpecKept \cup {"providerID"}) |-> spec[k]]

\* output.rs:241-246
SanitizeNodeSpec(spec) == [k \in DOMAIN spec \cap NodeSpecKept |-> spec[k]]

\* output.rs:238-282
SanitizeKind(obj) ==
    IF ~Has(obj, "kind") \/ ~Has(obj, "spec") THEN obj
    ELSE IF obj.kind = "Node"
         THEN [obj EXCEPT !.spec = SanitizeNodeSpec(@)]
    ELSE IF obj.kind = "Service"
         THEN [obj EXCEPT !.spec = SanitizeServiceSpec(@)]
    ELSE IF obj.kind = "PersistentVolume"
         THEN [obj EXCEPT !.spec = Drop(@, {"claimRef"})]
    ELSE IF obj.kind = "PersistentVolumeClaim"
         THEN [obj EXCEPT !.spec = Drop(@, {"volumeName"})]
    ELSE obj

\* output.rs:185: Result<()> and the document after the call
sanitize_resource_for_apply(resource) ==
    IF ~IsObject(resource) THEN [ok |-> TRUE, doc |-> resource]
    ELSE [ok |-> TRUE,
          doc |-> SanitizeKind(SanitizeMetadata(Drop(resource, {"status"})))]

\* output.rs:87, 92, 98, 79
record_sanitized(stats) ==
    [stats EXCEPT !.total_processed = @ + 1, !.total_sanitized = @ + 1]

record_skipped(stats, resource_identifier) ==
    [stats EXCEPT !.total_processed = @ + 1, !.total_skipped = @ + 1,
                  !.skipped_resources = Append(@, resource_identifier)]

record_raw(stats) == [stats EXCEPT !.total_processed = @ + 1]

\* a slip: the counters are summed, the identifiers are not taken over
add_dropping_identifiers(stats, other) ==
    [total_processed |-> stats.total_processed + other.total_processed,
     total_sanitized |-> stats.total_sanitized + other.total_sanitized,
     total_skipped |-> stats.total_skipped + other.total_skipped,
     skipped_resources |-> stats.skipped_resources]

\* output.rs:78
add(stats, other) ==
    [total_processed |-> stats.total_processed + other.total_processed,
     total_sanitized |-> stats.total_sanitized + other.total_sanitized,
     total_skipped |-> stats.total_skipped + other.total_skipped,
     skipped_resources |-> stats.skipped_resources \o other.skipped_resources]

\* output.rs:289
get_resource_identifier(resource, resource_type) ==
    LET name == IF Has(resource, "metadata") /\ Has(resource.metadata, "name")
                THEN resource.metadata.name ELSE "unknown"
    IN  IF Has(resource, "metadata") /\ Has(resource.metadata, "namespace")
        THEN resource_type \o "/" \o name \o " (" \o resource.metadata.namespace \o ")"
        ELSE resource_type \o "/" \o name

Saved(saved_count, stats, out) ==
    [saved_count |-> saved_count, sanitization_stats |-> stats, files |-> out]

\* the file a document is written to: the directory is a function of the
\* namespace and the resource type, the file name is the resource name
FilePath(namespace, resource_type, resource_name) ==
    <<namespace, resource_type, resource_name>>

\* the loop of output.rs:362 from position i on
RECURSIVE save_loop(_, _, _, _, _, _)
save_loop(namespace, resources, resource_type, sanitize, i, acc) ==
    IF i > Len(resources) THEN acc
    ELSE LET resource == resources[i]
         IN  IF ~(Has(resource, "metadata") /\ Has(resource.metadata, "name"))
             THEN save_loop(namespace, resources, resource_type, sanitize, i + 1, acc)
             ELSE LET path == FilePath(namespace, resource_type, resource.metadata.name)
                      result == sanitize_resource_for_apply(resource)
                  IN  IF sanitize /\ ~result.ok
                      THEN save_loop(namespace, resources, resource_type, sanitize, i + 1,
                               Saved(acc.saved_count,
                                     record_skipped(acc.sanitization_stats,
                                         get_resource_identifier(resource, resource_type)),
                                     acc.files))
                      ELSE save_loop(namespace, resources, resource_type, sanitize, i + 1,
                               Saved(acc.saved_count + 1,
                                     IF sanitize
                                     THEN record_sanitized(acc.sanitization_stats)
                                     ELSE record_raw(acc.sanitization_stats),
                                     MapInsert(acc.files, path,
                                               IF sanitize THEN result.doc
                                               ELSE resource)))

\* output.rs:309; `out` is the output directory before the call.  Creating
\* directories and writing files belong to the file system, which the model
\* takes to succeed.
save_resources_individually(out, namespace, resources, resource_type, sanitize) ==
    IF resources = <<>> THEN Saved(0, NewStats, out)
    ELSE save_loop(namespace, resources, resource_type, sanitize, 1,
                   Saved(0, NewStats, out))

\* a slip: the sanitizer is handed the caller's documents themselves
lent_sanitized_in_place(resources, sanitize) ==
    IF sanitize
    THEN [i \in 1..Len(resources) |-> sanitize_resource_for_apply(resources[i]).doc]
    ELSE resources

\* The slice lent to save_resources_individually, as the caller finds it
\* after the call: the parameter is `&[Value]` and the sanitizer is handed
\* `resource.clone()` (output.rs:369), so it is as it was.
lent_after_save(resources, sanitize) == resources

\* main.rs:450-460
FilterByNamespace(all_resources, namespace) ==
    SelectSeq(all_resources,
              LAMBDA r : /\ Has(r, "metadata")
                         /\ Has(r.metadata, "namespace")
                         /\ r.metadata.namespace = namespace)

SaveState(out, stats) == [files |-> out, stats |-> stats]

\* the loop of main.rs:448 (for a namespace) or main.rs:520 (cluster-wide)
\* over the resource types still to save; the HashMap's iteration order is
\* some order of its keys
RECURSIVE save_types(_, _, _, _, _, _)
save_types(resources, types, namespace, filtered, sanitize, acc) ==
    IF types = {} THEN acc
    ELSE LET resource_type == CHOOSE t \in types : TRUE
             r == save_resources_individually(
                      acc.files, namespace,
                      IF filtered
                      THEN FilterByNamespace(resources[resource_type], namespace)
                      ELSE resources[resource_type],
                      resource_type, sanitize)
         IN  save_types(resources, types \ {resource_type}, namespace, filtered,
                        sanitize,
                        SaveState(r.files, add(acc.stats, r.sanitization_stats)))

(***************************************************************************)
(* The component detector (suse_edge.rs)                                   *)
(***************************************************************************)
\* Option<T>
Some(value) == [some |-> TRUE, value |-> value]
None == [some |-> FALSE]

\* str::contains over the strings that occur in the model's documents: the
\* pairs <<string, substring>> with the substring a proper part of the string
ContainsTable ==
    { <<"v1.30.8+k3s1", "k3s">>,
      <<"v1.30.4+rke2r1", "rke2">>,
      <<"v1.31.0+rke2r1", "rke2">>,
      <<"rke2-agent", "rke2">>,
      <<"volumes.longhorn.io", "longhorn.io">>,
      <<"engines.longhorn.io", "longhorn.io">>,
      <<"nvclusterrolesecurityrules.neuvector.com", "neuvector.com">>,
      <<"virtualmachines.kubevirt.io", "kubevirt.io">>,
      <<"datavolumes.cdi.kubevirt.io", "kubevirt.io">>,
      <<"datavolumes.cdi.kubevirt.io", "cdi.kubevirt.io">>,
      <<"baremetalhosts.metal3.io", "metal3.io">>,
      <<"machineinventories.elemental.cattle.io", "elemental.cattle.io">>,
      <<"configurations.akri.sh", "akri.sh">>,
      <<"rancher-webhook", "rancher">>,
      <<"longhorn-ui", "longhorn">>,
      <<"SUSE Rancher Prime", "Rancher">>,
      <<"v2.9.1", ".">>,
      <<"v1.7.2", ".">>,
      <<"v0.5.0-sha256.1", ".">>,
      <<"v0.5.0-sha256.1", "sha256">>,
      <<"vcr.example.io/rancher/rancher", ".">>,
      <<"vcr.example.io/rancher/rancher", "rancher">> }

StrContains(str, pattern) == str = pattern \/ <<str, pattern>> \in ContainsTable

\* image.split(':').last() for the images of the model's documents: the part
\* after the last ':', and the whole reference when it has no ':'
ImageTagTable ==
    [image \in {"rancher/rancher:v2.9.1",
                "registry.suse.com/rancher/rancher-webhook:v0.5.0-sha256.1",
                "registry.suse.com/longhornio/longhorn-ui:v1.7.2",
                "registry.opensuse.org/tools/busybox",
                "vcr.example.io/rancher/rancher",
                "nginx:latest"} |->
       CASE image = "rancher/rancher:v2.9.1" -> "v2.9.1"
         [] image = "registry.suse.com/rancher/rancher-webhook:v0.5.0-sha256.1"
               -> "v0.5.0-sha256.1"
         [] image = "registry.suse.com/longhornio/longhorn-ui:v1.7.2" -> "v1.7.2"
         [] image = "registry.opensuse.org/tools/busybox"
               -> "registry.opensuse.org/tools/busybox"
         [] image = "vcr.example.io/rancher/rancher"
               -> "vcr.example.io/rancher/rancher"
         [] image = "nginx:latest" -> "latest"]

\* suse_edge.rs:391
get_resource_name(resource) ==
    IF Has(resource, "metadata") /\ Has(resource.metadata, "name")
    THEN Some(resource.metadata.name) ELSE None

\* suse_edge.rs:399
get_resource_namespace(resource) ==
    IF Has(resource, "metadata") /\ Has(resource.metadata, "namespace")
    THEN Some(resource.metadata.namespace) ELSE None

\* node.status.nodeInfo.kubeletVersion as a string, if there is one
KubeletVersion(node) ==
    IF /\ Has(node, "status")
       /\ Has(node.status, "nodeInfo")
       /\ Has(node.status.nodeInfo, "kubeletVersion")
    THEN Some(node.status.nodeInfo.kubeletVersion) ELSE None

\* a slip: the kubelet version of the first node that has one, K3s or not
extract_k3s_version_first_kubelet(nodes) ==
    LET hits == {i \in 1..Len(nodes) : KubeletVersion(nodes[i]).some}
    IN  IF hits # {} THEN Some(KubeletVersion(nodes[MinOf(hits)]).value)
        ELSE Some("detected")

\* suse_edge.rs:291
extract_k3s_version_from_nodes(nodes) ==
    LET hits == {i \in 1..Len(nodes) :
                   /\ KubeletVersion(nodes[i]).some
                   /\ StrContains(KubeletVersion(nodes[i]).value, "k3s")}
    IN  IF hits # {} THEN Some(KubeletVersion(nodes[MinOf(hits)]).value)
        ELSE Some("detected")

\* suse_edge.rs:308
extract_rke2_version_precise(nodes) ==
    LET hits == {i \in 1..Len(nodes) : KubeletVersion(nodes[i]).some}
    IN  IF hits # {} THEN Some(KubeletVersion(nodes[MinOf(hits)]).value)
        ELSE Some("detected")

\* suse_edge.rs:346
extract_containers_from_resource(resource) ==
    IF /\ Has(resource, "spec")
       /\ Has(resource.spec, "template")
       /\ Has(resource.spec.template, "spec")
       /\ Has(resource.spec.template.spec, "containers")
    THEN Some(resource.spec.template.spec.containers)
    ELSE IF Has(resource, "spec") /\ Has(resource.spec, "containers")
    THEN Some(resource.spec.containers)
    ELSE None

\* suse_edge.rs:336
extract_semantic_version(image) ==
    LET tag == ImageTagTable[image]
    IN  IF /\ StartsWith(tag, "v")
           /\ StrContains(tag, ".")
           /\ ~StrContains(tag, "sha256")
        THEN Some(tag) ELSE None

\* suse_edge.rs:323
extract_version_from_deployment(deployment) ==
    LET containers == extract_containers_from_resource(deployment)
    IN  IF ~containers.some THEN None
        ELSE LET hits == {i \in 1..Len(containers.value) :
                            /\ Has(containers.value[i], "image")
                            /\ extract_semantic_version(containers.value[i].image).some}
             IN  IF hits = {} THEN None
                 ELSE extract_semantic_version(containers.value[MinOf(hits)].image)

\* output.rs: SuseEdgeComponent
SuseEdgeComponent(name, version, found_in, category) ==
    [name |-> name, version |-> version, found_in |-> found_in,
     category |-> category]

\* suse_edge.rs:111-115
LabelledRke2(node) ==
    /\ Has(node, "metadata")
    /\ Has(node.metadata, "labels")
    /\ \/ Has(node.metadata.labels, "rke2.io/hostname")
       \/ \E k \in DOMAIN node.metadata.labels :
             StrContains(node.metadata.labels[k], "rke2")

\* suse_edge.rs:85-105: K3s by its cluster role, the version from the nodes
k3s_by_cluster_role(cluster_resources_) ==
    IF /\ Has(cluster_resources_, "clusterroles")
       /\ \E i \in 1..Len(cluster_resources_["clusterroles"]) :
             get_resource_name(cluster_resources_["clusterroles"][i])
                = Some("system:k3s-controller")
    THEN Some(SuseEdgeComponent(
                 "K3s",
                 IF Has(cluster_resources_, "nodes")
                 THEN extract_k3s_version_from_nodes(cluster_resources_["nodes"])
                 ELSE Some("detected"),
                 <<"Detected via cluster roles and node version">>, "Core"))
    ELSE None

\* suse_edge.rs:109-131: RKE2 by a node label
rke2_by_node_labels(nodes) ==
    IF \E i \in 1..Len(nodes) : LabelledRke2(nodes[i])
    THEN Some(SuseEdgeComponent(
                 "RKE2", extract_rke2_version_precise(nodes),
                 <<"Detected via node labels and version">>, "Core"))
    ELSE None

\* suse_edge.rs:134-150: RKE2 by the kubelet version of a node
rke2_by_kubelet_version(nodes) ==
    LET hits == {i \in 1..Len(nodes) :
                   /\ KubeletVersion(nodes[i]).some
                   /\ StrContains(KubeletVersion(nodes[i]).value, "rke2")}
    IN  IF hits # {}
        THEN Some(SuseEdgeComponent(
                     "RKE2", KubeletVersion(nodes[MinOf(hits)]),
                     <<"Detected via kubelet version">>, "Core"))
        ELSE None

\* a slip: the node checks come before the cluster role check
detect_kubernetes_distribution_nodes_first(namespaced_resources_, cluster_resources_) ==
    LET nodes == IF Has(cluster_resources_, "nodes")
                 THEN cluster_resources_["nodes"] ELSE <<>>
    IN  IF rke2_by_node_labels(nodes).some THEN rke2_by_node_labels(nodes)
        ELSE IF rke2_by_kubelet_version(nodes).some
        THEN rke2_by_kubelet_version(nodes)
        ELSE k3s_by_cluster_role(cluster_resources_)

\* suse_edge.rs:80
detect_kubernetes_distribution_precise(namespaced_resources_, cluster_resources_) ==
    IF k3s_by_cluster_role(cluster_resources_).some
    THEN k3s_by_cluster_role(cluster_resources_)
    ELSE IF ~Has(cluster_resources_, "nodes") THEN None
    ELSE LET nodes == cluster_resources_["nodes"]
         IN  IF rke2_by_node_labels(nodes).some THEN rke2_by_node_labels(nodes)
             ELSE rke2_by_kubelet_version(nodes)

\* suse_edge.rs:163: (crd_group, component_name, category)
suse_edge_crds ==
    << <<"longhorn.io", "SUSE Storage (Longhorn)", "Storage">>,
       <<"neuvector.com", "SUSE Security (NeuVector)", "Security">>,
       <<"kubevirt.io", "KubeVirt", "Virtualization">>,
       <<"cdi.kubevirt.io", "Containerized Data Importer", "Virtualization">>,
       <<"metal3.io", "Metal3", "Infrastructure">>,
       <<"elemental.cattle.io", "Elemental", "Infrastructure">>,
       <<"akri.sh", "Akri", "IoT">> >>

\* a slip: a definition counts only for the first table entry it matches
RECURSIVE crd_table_loop_first_match(_, _, _)
crd_table_loop_first_match(crds_, i, components) ==
    IF i > Len(suse_edge_crds) THEN components
    ELSE LET entry == suse_edge_crds[i]
             count == Cardinality(
                 {j \in 1..Len(crds_) :
                    /\ get_resource_name(crds_[j]).some
                    /\ StrContains(get_resource_name(crds_[j]).value, entry[1])
                    /\ \A e \in 1..(i - 1) :
                          ~StrContains(get_resource_name(crds_[j]).value,
                                       suse_edge_crds[e][1])})
         IN  crd_table_loop_first_match(crds_, i + 1,
                 IF count > 0
                 THEN Append(components,
                             SuseEdgeComponent(entry[2], None,
                                 <<ToString(count) \o " CRDs detected">>, entry[3]))
                 ELSE components)

\* the loop of suse_edge.rs:176 from table entry i on
RECURSIVE crd_table_loop(_, _, _)
crd_table_loop(crds_, i, components) ==
    IF i > Len(suse_edge_crds) THEN components
    ELSE LET entry == suse_edge_crds[i]
             count == Cardinality(
                 {j \in 1..Len(crds_) :
                    /\ get_resource_name(crds_[j]).some
                    /\ StrContains(get_resource_name(crds_[j]).value, entry[1])})
         IN  crd_table_loop(crds_, i + 1,
                 IF count > 0
                 THEN Append(components,
                             SuseEdgeComponent(entry[2], None,
                                 <<ToString(count) \o " CRDs detected">>, entry[3]))
                 ELSE components)

\* suse_edge.rs:157
detect_suse_edge_crds_precise(cluster_resources_) ==
    LET components ==
          IF Has(cluster_resources_, "customresourcedefinitions")
          THEN crd_table_loop(cluster_resources_["customresourcedefinitions"], 1, <<>>)
          ELSE <<>>
    IN  IF components = <<>> THEN None ELSE Some(components)

\* one of the two loops of detect_core_suse_components, from position i on
RECURSIVE core_loop(_, _, _, _, _, _, _)
core_loop(deployments, in_namespace, pattern, name, category, i, components) ==
    IF i > Len(deployments) THEN components
    ELSE LET deployment == deployments[i]
             hit == /\ get_resource_namespace(deployment) = Some(in_namespace)
                    /\ get_resource_name(deployment).some
                    /\ StrContains(get_resource_name(deployment).value, pattern)
         IN  core_loop(deployments, in_namespace, pattern, name, category, i + 1,
                 IF hit
                 THEN Append(components,
                          SuseEdgeComponent(
                              name, extract_version_from_deployment(deployment),
                              <<in_namespace \o "/" \o deployment.metadata.name>>,
                              category))
                 ELSE components)

\* suse_edge.rs:202
detect_core_suse_components(namespaced_resources_) ==
    LET deployments == IF Has(namespaced_resources_, "deployments")
                       THEN namespaced_resources_["deployments"] ELSE <<>>
        rancher == core_loop(deployments, "cattle-system", "rancher",
                             "SUSE Rancher Prime", "Management", 1, <<>>)
        components == core_loop(deployments, "longhorn-system", "longhorn",
                                "SUSE Storage (Longhorn)", "Storage", 1, rancher)
    IN  IF components = <<>> THEN None ELSE Some(components)

suse_registries == {"registry.suse.com", "registry.opensuse.org"}

\* the number of containers of one resource whose image is in a SUSE registry
SuseImagesOf(resource) ==
    LET containers == extract_containers_from_resource(resource)
    IN  IF ~containers.some THEN 0
        ELSE Cardinality({i \in 1..Len(containers.value) :
                            /\ Has(containers.value[i], "image")
                            /\ \E reg \in suse_registries :
                                  StartsWith(containers.value[i].image, reg)})

RECURSIVE SumOver(_, _)
SumOver(resources, i) ==
    IF i > Len(resources) THEN 0
    ELSE SuseImagesOf(resources[i]) + SumOver(resources, i + 1)

\* suse_edge.rs:255
detect_suse_registry_usage_precise(namespaced_resources_) ==
    LET of(resource_type) ==
          IF Has(namespaced_resources_, resource_type)
          THEN SumOver(namespaced_resources_[resource_type], 1) ELSE 0
        suse_image_count == of("pods") + of("deployments")
    IN  IF suse_image_count > 0
        THEN Some(SuseEdgeComponent(
                     "SUSE Container Images", None,
                     <<ToString(suse_image_count) \o " SUSE images in use">>,
                     "Infrastructure"))
        ELSE None

\* a slip: the "Low" row asks for a score of 15
determine_confidence_level_low_from_15(confidence_score, component_count) ==
    IF confidence_score >= 60 /\ component_count >= 5 THEN "Very High"
    ELSE IF confidence_score >= 40 /\ component_count >= 3 THEN "High"
    ELSE IF confidence_score >= 20 /\ component_count >= 2 THEN "Medium"
    ELSE IF confidence_score >= 15 /\ component_count >= 1 THEN "Low"
    ELSE "Minimal"

\* a slip: the rows of the table tried from the weakest to the strongest
determine_confidence_level_weakest_first(confidence_score, component_count) ==
    IF confidence_score >= 10 /\ component_count >= 1 THEN "Low"
    ELSE IF confidence_score >= 20 /\ component_count >= 2 THEN "Medium"
    ELSE IF confidence_score >= 40 /\ component_count >= 3 THEN "High"
    ELSE IF confidence_score >= 60 /\ component_count >= 5 THEN "Very High"
    ELSE "Minimal"

\* suse_edge.rs:361
determine_confidence_level_conservative(confidence_score, component_count) ==
    IF confidence_score >= 60 /\ component_count >= 5 THEN "Very High"
    ELSE IF confidence_score >= 40 /\ component_count >= 3 THEN "High"
    ELSE IF confidence_score >= 20 /\ component_count >= 2 THEN "Medium"
    ELSE IF confidence_score >= 10 /\ component_count >= 1 THEN "Low"
    ELSE "Minimal"

\* a slip: the Elemental row is tried before the Metal3 row
determine_deployment_type_elemental_first(components) ==
    LET has(pattern) == \E i \in 1..Len(components) :
                           StrContains(components[i].name, pattern)
        has_k8s_dist == \E i \in 1..Len(components) :
                           components[i].name \in {"K3s", "RKE2"}
    IN  IF has("Rancher") /\ has("Elemental") THEN "Elemental Management Cluster"
        ELSE IF has("Rancher") /\ has("Metal3") THEN "Management Cluster"
        ELSE IF has("Rancher") THEN "Rancher Management Cluster"
        ELSE IF has_k8s_dist THEN "Downstream Cluster"
        ELSE "Standalone Cluster"

\* suse_edge.rs:374
determine_deployment_type_precise(components) ==
    LET has(pattern) == \E i \in 1..Len(components) :
                           StrContains(components[i].name, pattern)
        has_rancher == has("Rancher")
        has_metal3 == has("Metal3")
        has_elemental == has("Elemental")
        has_k8s_dist == \E i \in 1..Len(components) :
                           components[i].name \in {"K3s", "RKE2"}
    IN  IF has_rancher /\ has_metal3 THEN "Management Cluster"
        ELSE IF has_rancher /\ has_elemental THEN "Elemental Management Cluster"
        ELSE IF has_rancher THEN "Rancher Management Cluster"
        ELSE IF has_k8s_dist THEN "Downstream Cluster"
        ELSE "Standalone Cluster"

\* output.rs: SuseEdgeAnalysis
SuseEdgeAnalysis(components, total_components, confidence, deployment_type, kubernetes_distribution) ==
    [components |-> components, total_components |-> total_components,
     confidence |-> confidence, deployment_type |-> deployment_type,
     kubernetes_distribution |-> kubernetes_distribution]

\* suse_edge.rs:8
create_empty_analysis ==
    SuseEdgeAnalysis(<<>>, 0, "None - Standard Kubernetes",
                     "Standard Kubernetes Cluster", None)

OrEmpty(option) == IF option.some THEN option.value ELSE <<>>

\* suse_edge.rs:19
detect_suse_edge_components(namespaced_resources_, cluster_resources_) ==
    LET k8s_dist == detect_kubernetes_distribution_precise(
                        namespaced_resources_, cluster_resources_)
        edge_crds == detect_suse_edge_crds_precise(cluster_resources_)
        core_components == detect_core_suse_components(namespaced_resources_)
        registry_component == detect_suse_registry_usage_precise(namespaced_resources_)
        detection_confidence ==
            (IF k8s_dist.some THEN 20 ELSE 0)
            + 15 * Len(OrEmpty(edge_crds))
            + 10 * Len(OrEmpty(core_components))
            + (IF registry_component.some THEN 5 ELSE 0)
        detected_components ==
            (IF k8s_dist.some THEN <<k8s_dist.value>> ELSE <<>>)
            \o OrEmpty(edge_crds)
            \o OrEmpty(core_components)
            \o (IF registry_component.some THEN <<registry_component.value>> ELSE <<>>)
    IN  IF detected_components = <<>> THEN None
        ELSE Some(SuseEdgeAnalysis(
                     detected_components,
                     Len(detected_components),
                     determine_confidence_level_conservative(
                         detection_confidence, Len(detected_components)),
                     determine_deployment_type_precise(detected_components),
                     IF k8s_dist.some THEN Some(k8s_dist.value.name) ELSE None))

\* a slip: the detector's None is kept instead of the empty report
suse_edge_analysis_without_empty(disabled, namespaced_resources_, cluster_resources_) ==
    IF disabled THEN None
    ELSE detect_suse_edge_components(namespaced_resources_, cluster_resources_)

\* main.rs:383-399
suse_edge_analysis(disabled, namespaced_resources_, cluster_resources_) ==
    IF disabled THEN None
    ELSE LET analysis == detect_suse_edge_components(
                             namespaced_resources_, cluster_resources_)
         IN  IF analysis.some THEN analysis ELSE Some(create_empty_analysis)

(***************************************************************************)
(* The run (main.rs:334)                                                   *)
(***************************************************************************)
Abort(reason) == /\ pc' = "aborted" /\ abort' = reason

\* main.rs:358: KubeClient::new_client(..).await?
NewClient ==
    /\ pc = "start"
    /\ \E connected \in BOOLEAN :
          IF connected THEN pc' = "connected" /\ abort' = abort
          ELSE Abort("Failed to create Kubernetes client")
    /\ UNCHANGED <<argVars, nsVars, builtinVars, crVars, saveVars, listCalls,
                   contained>>
    /\ UNCHANGED <<reportVars, sanVars>>

\* main.rs:361-366
DetermineNamespaces ==
    /\ pc = "connected"
    /\ IF namespaces_arg # <<>>
       THEN /\ requested' = namespaces_arg[1]
            /\ pc' = "verify" /\ abort' = abort
       ELSE \E listed \in BOOLEAN :
              IF listed
              THEN /\ requested' = cluster_namespaces
                   /\ pc' = "verify" /\ abort' = abort
              ELSE /\ Abort("Failed to list namespaces")
                   /\ requested' = requested
    /\ UNCHANGED <<argVars, cluster_namespaces, verified, builtinVars, crVars,
                   saveVars, listCalls, contained>>
    /\ UNCHANGED <<reportVars, sanVars>>

\* main.rs:368: kube_client.verify_namespaces(..).await?
VerifyNamespaces ==
    /\ pc = "verify"
    /\ \E listed \in BOOLEAN :
          LET r == verify_namespaces(cluster_namespaces, requested, listed)
          IN  IF r.ok
              THEN /\ verified' = r.verified
                   /\ pc' = "namespaced" /\ abort' = abort
              ELSE /\ Abort(r.err)
                   /\ verified' = verified
    /\ UNCHANGED <<argVars, cluster_namespaces, requested, builtinVars, crVars,
                   saveVars, listCalls, contained>>
    /\ UNCHANGED <<reportVars, sanVars>>

\* main.rs:75-226: one `collect_<kind>(namespaces).await?` and its insert
CollectKind ==
    /\ pc = "namespaced"
    /\ kindIdx <= Len(NamespacedKinds)
    /\ \E F \in SUBSET (1..Len(verified)) :
          LET r == collect_resources(NamespacedKinds[kindIdx], verified, F)
          IN  /\ listCalls' = listCalls \o r.calls
              /\ IF r.ok
                 THEN /\ namespaced_resources' =
                           MapInsert(namespaced_resources,
                                     NamespacedKinds[kindIdx], r.items)
                      /\ kindIdx' = kindIdx + 1
                      /\ contained' = contained \cup
                           (IF F = {} THEN {} ELSE {"namespaced list"})
                      /\ UNCHANGED <<pc, abort>>
                 ELSE /\ Abort("Failed to collect")
                      /\ UNCHANGED <<namespaced_resources, kindIdx, contained>>
    /\ UNCHANGED <<argVars, nsVars, clusterIdx, cluster_resources, crVars, saveVars>>
    /\ UNCHANGED <<reportVars, sanVars>>

\* main.rs:229-232 and k8s.rs:391: collect_all_custom_resources starts by
\* listing the definitions; its Err is logged by main.rs:254
StartCustom ==
    /\ pc = "namespaced"
    /\ kindIdx > Len(NamespacedKinds)
    /\ include_custom
    /\ \E fails \in BOOLEAN :
          LET r == collect_cluster_resources("customresourcedefinitions",
                                             ClusterCrds, fails)
          IN  /\ listCalls' = listCalls \o r.calls
              /\ IF r.ok
                 THEN /\ crds' = r.items
                      /\ pc' = "custom"
                      /\ contained' = contained \cup
                           (IF fails THEN {"cluster list"} ELSE {})
                 ELSE /\ crds' = crds
                      /\ pc' = "cluster"
                      /\ contained' = contained \cup {"custom resource collection"}
    /\ crdIdx' = 1
    /\ all_custom_resources' = EmptyMap
    /\ UNCHANGED <<abort, argVars, nsVars, builtinVars, crLog, discoveryFetches,
                   saveVars>>
    /\ UNCHANGED <<reportVars, sanVars>>

\* main.rs:264-271
SkipCustom ==
    /\ pc = "namespaced"
    /\ kindIdx > Len(NamespacedKinds)
    /\ ~include_custom
    /\ pc' = "cluster"
    /\ UNCHANGED <<abort, argVars, nsVars, builtinVars, crVars, saveVars,
                   listCalls, contained>>
    /\ UNCHANGED <<reportVars, sanVars>>

\* the cluster-scoped kinds of a run: the definitions come last, and only
\* with --include-custom-resources (main.rs:318)
ClusterKindsOfRun ==
    IF include_custom THEN Append(ClusterKinds, "customresourcedefinitions")
    ELSE ClusterKinds

ClusterItems(resource_name) ==
    IF resource_name = "customresourcedefinitions" THEN ClusterCrds
    ELSE BuiltinList(resource_name, AllNamespaces)

\* main.rs:285-327: one `collect_<kind>().await?` and its insert
CollectClusterKind ==
    /\ pc = "cluster"
    /\ clusterIdx <= Len(ClusterKindsOfRun)
    /\ \E fails \in BOOLEAN :
          LET kind == ClusterKindsOfRun[clusterIdx]
              r == collect_cluster_resources(kind, ClusterItems(kind), fails)
          IN  /\ listCalls' = listCalls \o r.calls
              /\ IF r.ok
                 THEN /\ cluster_resources' =
                           MapInsert(cluster_resources, kind, r.items)
                      /\ clusterIdx' = clusterIdx + 1
                      /\ contained' = contained \cup
                           (IF fails THEN {"cluster list"} ELSE {})
                      /\ UNCHANGED <<pc, abort>>
                 ELSE /\ Abort("Failed to collect")
                      /\ UNCHANGED <<cluster_resources, clusterIdx, contained>>
    /\ UNCHANGED <<argVars, nsVars, kindIdx, namespaced_resources, crVars, saveVars>>
    /\ UNCHANGED <<reportVars, sanVars>>

\* main.rs:330, 383-414: collection is over, the detector runs unless it is
\* disabled, the output directory is set up
FinishCollect ==
    /\ pc = "cluster"
    /\ clusterIdx > Len(ClusterKindsOfRun)
    /\ edge_analysis' = suse_edge_analysis(disable_suse_edge_analysis,
                                           namespaced_resources, cluster_resources)
    /\ pc' = "save"
    /\ UNCHANGED <<abort, argVars, nsVars, builtinVars, crVars, saveVars,
                   listCalls, contained, sanVars>>

\* main.rs:416-515: one verified namespace, every resource type
SaveNamespace ==
    /\ pc = "save"
    /\ saveIdx <= Len(verified)
    /\ LET r == save_types(namespaced_resources, DOMAIN namespaced_resources,
                           verified[saveIdx], TRUE, ~raw,
                           SaveState(files, total_sanitization_stats))
       IN  /\ files' = r.files
           /\ total_sanitization_stats' = r.stats
    /\ saveIdx' = saveIdx + 1
    /\ UNCHANGED <<pc, abort, argVars, nsVars, builtinVars, crVars, listCalls,
                   contained>>
    /\ UNCHANGED <<reportVars, sanVars>>

\* main.rs:518-563: the cluster-scoped resource types, then the summary
SaveCluster ==
    /\ pc = "save"
    /\ saveIdx > Len(verified)
    /\ LET r == save_types(cluster_resources, DOMAIN cluster_resources,
                           "cluster-wide", FALSE, ~raw,
                           SaveState(files, total_sanitization_stats))
       IN  /\ files' = r.files
           /\ total_sanitization_stats' = r.stats
    /\ cluster_resources' =
          [t \in DOMAIN cluster_resources |->
             lent_after_save(cluster_resources[t], ~raw)]
    /\ pc' = "done"
    /\ UNCHANGED <<abort, argVars, nsVars, kindIdx, namespaced_resources,
                   clusterIdx, crVars, saveIdx, listCalls, contained>>
    /\ UNCHANGED <<reportVars, sanVars>>

\* the --namespaces values of the runs explored
RunNamespaceArgs == {<<>>, << <<"ns1", "ghost">> >>, << <<"ns2", "ns1">> >>}

InitCommon ==
    /\ pc = "start"
    /\ abort = ""
    /\ requested = <<>>
    /\ verified = <<>>
    /\ kindIdx = 1
    /\ namespaced_resources = EmptyMap
    /\ crds = <<>>
    /\ crdIdx = 1
    /\ all_custom_resources = EmptyMap
    /\ crLog = <<>>
    /\ discoveryFetches = <<>>
    /\ clusterIdx = 1
    /\ cluster_resources = EmptyMap
    /\ saveIdx = 1
    /\ files = EmptyMap
    /\ total_sanitization_stats = NewStats
    /\ listCalls = <<>>
    /\ contained = {}
    /\ edge_analysis = NotAnalysed

Init ==
    /\ InitCommon
    /\ document = NoDocument
    /\ passes = <<>>
    /\ sanitization_stats = NewStats
    /\ namespaces_arg \in RunNamespaceArgs
    /\ include_custom \in BOOLEAN
    /\ raw \in BOOLEAN
    /\ disable_suse_edge_analysis = FALSE
    /\ cluster_namespaces \in {<<>>, <<"ns1", "ns2">>}

Next ==
    \/ NewClient
    \/ DetermineNamespaces
    \/ VerifyNamespaces
    \/ CollectKind
    \/ StartCustom
    \/ SkipCustom
    \/ ProcessCrd
    \/ FinishCustom
    \/ CollectClusterKind
    \/ FinishCollect
    \/ SaveNamespace
    \/ SaveCluster

Spec == Init /\ [][Next]_vars

(***************************************************************************)
(* The run up to the end of the collection of the built-in kinds, with     *)
(* any --namespaces list over the names below.                             *)
(***************************************************************************)
NamespaceNames == {"ns1", "ns2", "ghost"}

InitNamespaces ==
    /\ InitCommon
    /\ document = NoDocument
    /\ passes = <<>>
    /\ sanitization_stats = NewStats
    /\ namespaces_arg \in
          {<<>>} \cup {<<r>> : r \in SeqsUpTo(NamespaceNames, MaxRequested) \ {<<>>}}
    /\ include_custom = FALSE
    /\ raw = FALSE
    /\ disable_suse_edge_analysis = FALSE
    /\ cluster_namespaces \in {<<>>, <<"ns1">>, <<"ns2", "ns1">>}

NextNamespaces ==
    \/ NewClient
    \/ DetermineNamespaces
    \/ VerifyNamespaces
    \/ CollectKind
    \/ SkipCustom
    \/ CollectClusterKind
    \/ FinishCollect

SpecNamespaces == InitNamespaces /\ [][NextNamespaces]_vars

(***************************************************************************)
(* Properties of the run                                                   *)
(***************************************************************************)
FatalConditions ==
    {"Failed to create Kubernetes client", "Failed to list namespaces",
     "No valid namespaces found"}

ListedIn(resource_name, ns) ==
    \E k \in 1..Len(listCalls) :
        /\ listCalls[k].phase = 0
        /\ listCalls[k].plural = resource_name
        /\ listCalls[k].namespace = ns

Named(doc) == Has(doc, "metadata") /\ Has(doc.metadata, "name")

Present(n) == Contains(cluster_namespaces, n)

\* C10: Once the namespaces are verified, the verified list is the list of
\* the requested names that are in the cluster's namespace list, in the
\* order they were requested. When the namespace listing succeeded, the run
\* stops with "No valid namespaces found" exactly when no requested name is
\* in the cluster's list, and then no list call has been issued and no step
\* follows.
C10_VerifyNamespaces ==
    /\ pc \in {"namespaced", "cluster", "save"} =>
          /\ verified = SelectSeq(requested, Present)
          /\ verified # <<>>
    /\ (/\ pc \notin {"start", "connected", "verify"}
        /\ abort \notin {"Failed to create Kubernetes client",
                          "Failed to list namespaces"})
       => ((abort = "No valid namespaces found")
             = (\A k \in 1..Len(requested) : ~Present(requested[k])))
    /\ abort = "No valid namespaces found" =>
          /\ listCalls = <<>>
          /\ ~ENABLED NextNamespaces

C10_Witness ==
    /\ requested = <<"ghost", "ns1">>
    /\ cluster_namespaces = <<"ns2", "ns1">>
    /\ verified = <<"ns1">>
    /\ pc = "save"
    /\ listCalls # <<>>

C10_WitnessNoValid ==
    /\ requested = <<"ghost", "ns2">>
    /\ cluster_namespaces = <<"ns1">>
    /\ abort = "No valid namespaces found"

\* the list calls of one built-in namespaced kind, in the order issued
KindCalls(kind) ==
    SelectSeq(listCalls, LAMBDA c : /\ c.phase = 0
                                    /\ c.plural = kind
                                    /\ c.namespace # AllNamespaces)

\* C11: Once a namespaced built-in kind is collected, exactly one list call
\* was issued for it per verified namespace, in the order of the verified
\* list, and the collected items are the concatenation, in that order, of
\* the items of the namespaces whose call succeeded; a namespace whose call
\* failed adds nothing, and the collection never ends the run with an
\* error.
C11_CollectPerNamespace ==
    /\ abort # "Failed to collect"
    /\ \A k \in 1..Len(NamespacedKinds) :
          (pc \in {"namespaced", "cluster", "save"} /\ k < kindIdx) =>
             LET kind == NamespacedKinds[k]
                 calls == KindCalls(kind)
             IN  /\ Len(calls) = Len(verified)
                 /\ \A n \in 1..Len(calls) : calls[n].namespace = verified[n]
                 /\ Has(namespaced_resources, kind)
                 /\ namespaced_resources[kind] =
                       Concat([n \in 1..Len(calls) |->
                                 IF calls[n].ok
                                 THEN BuiltinList(kind, verified[n])
                                 ELSE <<>>])

C11_Witness ==
    /\ kindIdx > Len(NamespacedKinds)
    /\ verified = <<"ns1", "ns2">>
    /\ ~KindCalls("pods")[1].ok
    /\ KindCalls("pods")[2].ok
    /\ Len(namespaced_resources["pods"]) = 1
    /\ namespaced_resources["pods"][1].metadata.name = "p2"

(***************************************************************************)
(* The sanitizer on its own: sanitize_resource_for_apply called, and       *)
(* called again on what it returned, for any document of the set below.    *)
(***************************************************************************)
MetadataBases ==
    { [name |-> "x"],
      [name |-> "x", namespace |-> "ns1", uid |-> "uid-x",
       resourceVersion |-> "42", creationTimestamp |-> "2024-01-01T00:00:00Z",
       generation |-> 3, managedFields |-> <<[manager |-> "kubectl"]>>,
       selfLink |-> "/api/v1/x", labels |-> [app |-> "x"]] }

AnnotationVariants ==
    { <<>>,
      [annotations |-> <<>>],
      [annotations |->
         ("kubectl.kubernetes.io/last-applied-configuration" :> "{}")],
      [annotations |->
         ("deployment.kubernetes.io/revision" :> "2") @@ ("example.com/owner" :> "team")],
      [annotations |->
         ("control-plane.alpha.kubernetes.io/leader" :> "n1") @@
         ("kubectl.kubernetes.io/restartedAt" :> "now")] }

FinalizerVariants ==
    { <<>>,
      [finalizers |-> <<"kubernetes.io/pvc-protection">>],
      [finalizers |-> <<"kubernetes.io/pv-protection", "example.com/cleanup">>] }

MetadataVariants ==
    { b @@ a @@ f : b \in MetadataBases, a \in AnnotationVariants,
                    f \in FinalizerVariants }

Restrict(obj, keys) == [k \in keys |-> obj[k]]

NodeSpecFields ==
    [podCIDR |-> "10.42.0.0/24", podCIDRs |-> <<"10.42.0.0/24">>,
     taints |-> <<[key |-> "dedicated", effect |-> "NoSchedule"]>>,
     providerID |-> "k3s://n1", unschedulable |-> TRUE]

NodeSpecs == { Restrict(NodeSpecFields, ks) : ks \in SUBSET DOMAIN NodeSpecFields }

NodePortValues == {-1, 29999, 30000, 30001}

Ports == { [port |-> 80] } \cup { [port |-> 80, nodePort |-> v] : v \in NodePortValues }

ServiceSpecFields ==
    [type |-> "NodePort", clusterIP |-> "10.0.0.1", clusterIPs |-> <<"10.0.0.1">>]

ServiceSpecs ==
    { Restrict(ServiceSpecFields, {"type"} \cup ks) @@ p :
        ks \in SUBSET {"clusterIP", "clusterIPs"},
        p \in {<<>>} \cup { [ports |-> ps] : ps \in SeqsUpTo(Ports, MaxPorts) } }

VolumeSpecs ==
    { [capacity |-> "1Gi"],
      [capacity |-> "1Gi", claimRef |-> [name |-> "c"], volumeName |-> "pv1"] }

\* a spec holding every key the kind rules look at
MixedSpec ==
    [nodeName |-> "n1", providerID |-> "k3s://n1", clusterIP |-> "10.0.0.9",
     claimRef |-> [name |-> "c"], volumeName |-> "pv1",
     ports |-> <<[port |-> 80, nodePort |-> 30000]>>]

KindAndSpecVariants ==
    { [kind |-> "Node", spec |-> sp] : sp \in NodeSpecs }
    \cup { [kind |-> "Service", spec |-> sp] : sp \in ServiceSpecs }
    \cup { [kind |-> k, spec |-> sp] :
             k \in {"PersistentVolume", "PersistentVolumeClaim"}, sp \in VolumeSpecs }
    \cup { [kind |-> k, spec |-> MixedSpec] : k \in {"Pod", "Deployment"} }
    \cup { [kind |-> k] : k \in {"Node", "Service", "ConfigMap"} }
    \cup { [spec |-> MixedSpec], <<>> }

StatusVariants == { <<>>, [status |-> [phase |-> "Running"]] }

ObjectDocuments ==
    { [apiVersion |-> "v1"] @@ ks @@ st @@ md :
        ks \in KindAndSpecVariants, st \in StatusVariants,
        md \in {<<>>} \cup { [metadata |-> m] : m \in MetadataVariants } }

Documents == ObjectDocuments \cup { NonObject("\"text\""), NonObject("[1, 2]") }

InitSanitize ==
    /\ InitCommon
    /\ namespaces_arg = <<>>
    /\ include_custom = FALSE
    /\ raw = FALSE
    /\ disable_suse_edge_analysis = FALSE
    /\ cluster_namespaces = <<>>
    /\ document \in Documents
    /\ passes = <<>>
    /\ sanitization_stats = NewStats

\* one more call of the sanitizer, on the document as the last call left it
Sanitize ==
    /\ Len(passes) < MaxPasses
    /\ passes' = Append(passes,
                        sanitize_resource_for_apply(
                            IF passes = <<>> THEN document
                            ELSE passes[Len(passes)].doc))
    /\ UNCHANGED <<pc, abort, argVars, nsVars, builtinVars, crVars, saveVars,
                   listCalls, contained, reportVars, document, sanitization_stats>>

\* save_resources_individually called in sanitize mode with the document as
\* its only resource (output.rs:309)
SaveDocument ==
    /\ saveIdx = 1
    /\ LET r == save_resources_individually(files, "cluster-wide", <<document>>,
                                            "documents", TRUE)
       IN  /\ files' = r.files
           /\ total_sanitization_stats' =
                 add(total_sanitization_stats, r.sanitization_stats)
    /\ saveIdx' = saveIdx + 1
    /\ UNCHANGED <<pc, abort, argVars, nsVars, builtinVars, crVars, listCalls,
                   contained, reportVars, sanVars>>

NextSanitize == Sanitize \/ SaveDocument

SpecSanitize == InitSanitize /\ [][NextSanitize]_vars

(***************************************************************************)
(* Properties of the sanitizer                                             *)
(***************************************************************************)
\* the keys of `before` that `after` no longer has
RemovedKeys(before, after) == DOMAIN before \ DOMAIN after

\* C12: A second sanitizer call, and every later one, returns the document
\* the first call returned; and no top-level field, metadata field or spec
\* field that the first call removed is present after a later call.
C12_SanitizeIdempotent ==
    \A i \in 2..Len(passes) :
       LET once == passes[1].doc
           again == passes[i].doc
       IN  /\ again = once
           /\ IsObject(document) =>
                /\ RemovedKeys(document, once) \cap DOMAIN again = {}
                /\ \A part \in {"metadata", "spec"} :
                      (Has(document, part) /\ Has(again, part)) =>
                         RemovedKeys(document[part], once[part])
                            \cap DOMAIN again[part] = {}

C12_Witness ==
    /\ Len(passes) = 2
    /\ Has(document, "status")
    /\ Has(document, "metadata")
    /\ Has(document.metadata, "uid")
    /\ Has(document.metadata, "annotations")
    /\ DOMAIN document.metadata.annotations =
          {"kubectl.kubernetes.io/last-applied-configuration"}
    /\ ~Has(passes[1].doc.metadata, "annotations")
    /\ passes[2].doc = passes[1].doc
    /\ passes[1].doc # document

\* C13: The sanitized form of an object document has no top-level status,
\* and its metadata has none of uid, resourceVersion, creationTimestamp,
\* generation, managedFields and selfLink. When the kind is none of Node,
\* Service, PersistentVolume and PersistentVolumeClaim, every top-level
\* field other than status and metadata, the spec included, is as it was,
\* and no field is added.
C13_AlwaysRemovedFields ==
    (Len(passes) >= 1 /\ IsObject(document)) =>
       LET out == passes[1].doc
       IN  /\ passes[1].ok
           /\ ~Has(out, "status")
           /\ Has(out, "metadata") =>
                 DOMAIN out.metadata \cap
                    {"uid", "resourceVersion", "creationTimestamp",
                     "generation", "managedFields", "selfLink"} = {}
           /\ (~Has(document, "kind")
                 \/ document.kind \notin {"Node", "Service", "PersistentVolume",
                                          "PersistentVolumeClaim"}) =>
                 /\ DOMAIN out \subseteq DOMAIN document
                 /\ \A k \in DOMAIN document \ {"status", "metadata"} :
                       Has(out, k) /\ out[k] = document[k]

C13_Witness ==
    /\ Len(passes) >= 1
    /\ Has(document, "kind") /\ document.kind = "Deployment"
    /\ Has(document, "status")
    /\ Has(document, "metadata")
    /\ {"uid", "resourceVersion", "creationTimestamp", "generation",
        "managedFields", "selfLink"} \subseteq DOMAIN document.metadata
    /\ DOMAIN passes[1].doc = {"apiVersion", "kind", "metadata", "spec"}
    /\ passes[1].doc.spec = MixedSpec

ServiceWithSpec(d) ==
    /\ IsObject(d)
    /\ Has(d, "kind") /\ d.kind = "Service"
    /\ Has(d, "spec")

\* C14: The sanitized spec of a Service has neither clusterIP nor
\* clusterIPs; it has a ports list exactly when the input has one, of the
\* same length, where a port whose nodePort is 30000 or more has lost its
\* nodePort and kept its other fields, and a port whose nodePort is below
\* 30000, or which has none, is as it was.
C14_ServiceNodePorts ==
    (Len(passes) >= 1 /\ ServiceWithSpec(document)) =>
       LET spec_in == document.spec
           spec_out == passes[1].doc.spec
       IN  /\ ~Has(spec_out, "clusterIP")
           /\ ~Has(spec_out, "clusterIPs")
           /\ DOMAIN spec_out = DOMAIN spec_in \ {"clusterIP", "clusterIPs"}
           /\ Has(spec_in, "ports") =>
                 /\ Len(spec_out.ports) = Len(spec_in.ports)
                 /\ \A i \in 1..Len(spec_in.ports) :
                       LET p == spec_in.ports[i]
                           q == spec_out.ports[i]
                       IN  IF Has(p, "nodePort") /\ p.nodePort >= 30000
                           THEN /\ ~Has(q, "nodePort")
                                /\ q = [k \in DOMAIN p \ {"nodePort"} |-> p[k]]
                           ELSE q = p

C14_Witness ==
    /\ Len(passes) >= 1
    /\ ServiceWithSpec(document)
    /\ Has(document.spec, "clusterIP")
    /\ Has(document.spec, "ports")
    /\ document.spec.ports = <<[port |-> 80, nodePort |-> 30000],
                               [port |-> 80, nodePort |-> 29999]>>
    /\ passes[1].doc.spec.ports = <<[port |-> 80],
                                    [port |-> 80, nodePort |-> 29999]>>

NodeWithSpec(d) ==
    /\ IsObject(d)
    /\ Has(d, "kind") /\ d.kind = "Node"
    /\ Has(d, "spec")

\* C15: The sanitized spec of a Node has exactly the keys of the input spec
\* that are among podCIDR, podCIDRs and taints, each with the value it had.
C15_NodeSpecKeys ==
    (Len(passes) >= 1 /\ NodeWithSpec(document)) =>
       LET spec_in == document.spec
           spec_out == passes[1].doc.spec
       IN  /\ DOMAIN spec_out =
                 DOMAIN spec_in \cap {"podCIDR", "podCIDRs", "taints"}
           /\ \A k \in DOMAIN spec_out : spec_out[k] = spec_in[k]

C15_Witness ==
    /\ Len(passes) >= 1
    /\ NodeWithSpec(document)
    /\ DOMAIN document.spec =
          {"podCIDR", "podCIDRs", "taints", "providerID", "unschedulable"}
    /\ DOMAIN passes[1].doc.spec = {"podCIDR", "podCIDRs", "taints"}

\* C16: For a document that is not an object, the sanitizer returns an
\* error, and a save in sanitize mode counts the document as skipped,
\* records its identifier "<type>/<name>" or "<type>/<name> (<namespace>)"
\* in the skipped list and writes no file for it.
C16_StructuralFailureSkipped ==
    ~IsObject(document) =>
       /\ Len(passes) >= 1 => ~passes[1].ok
       /\ saveIdx > 1 =>
             /\ files = EmptyMap
             /\ total_sanitization_stats.total_skipped = 1
             /\ total_sanitization_stats.skipped_resources =
                   <<get_resource_identifier(document, "documents")>>

(***************************************************************************)
(* The detector on its own: the step of main that runs it, for any         *)
(* collected maps built from the documents below.                          *)
(***************************************************************************)
ClusterRole(name) ==
    [apiVersion |-> "rbac.authorization.k8s.io/v1", kind |-> "ClusterRole",
     metadata |-> [name |-> name]]

ClusterRoleLists ==
    { <<ClusterRole("view")>>,
      <<ClusterRole("system:k3s-controller")>>,
      <<ClusterRole("view"), ClusterRole("system:k3s-controller")>> }

NodeInfo(version) == [status |-> [nodeInfo |-> [kubeletVersion |-> version]]]

NodeDoc(name, labels, rest) ==
    [apiVersion |-> "v1", kind |-> "Node",
     metadata |-> [name |-> name, labels |-> labels]] @@ rest

NodeVariants ==
    { NodeDoc("plain", ("kubernetes.io/hostname" :> "plain"), NodeInfo("v1.29.0")),
      NodeDoc("k3s", ("kubernetes.io/hostname" :> "k3s"), NodeInfo("v1.30.8+k3s1")),
      NodeDoc("rke2-key", ("rke2.io/hostname" :> "a"), NodeInfo("v1.30.4+rke2r1")),
      NodeDoc("rke2-value", ("node-role" :> "rke2-agent"), <<>>),
      NodeDoc("rke2-kubelet", ("kubernetes.io/hostname" :> "b"),
              NodeInfo("v1.31.0+rke2r1")) }

MaxNodes == 2

NodeLists == SeqsUpTo(NodeVariants, MaxNodes)

DefinitionDoc(name) ==
    [apiVersion |-> "apiextensions.k8s.io/v1", kind |-> "CustomResourceDefinition",
     metadata |-> [name |-> name]]

DefinitionNameLists ==
    { <<>>,
      <<"widgets.example.com">>,
      <<"volumes.longhorn.io">>,
      <<"volumes.longhorn.io", "engines.longhorn.io">>,
      <<"datavolumes.cdi.kubevirt.io">>,
      <<"baremetalhosts.metal3.io">>,
      <<"machineinventories.elemental.cattle.io">>,
      <<"baremetalhosts.metal3.io", "volumes.longhorn.io">>,
      <<"volumes.longhorn.io", "datavolumes.cdi.kubevirt.io">>,
      <<"datavolumes.cdi.kubevirt.io", "volumes.longhorn.io",
        "baremetalhosts.metal3.io">>,
      <<"configurations.akri.sh", "machineinventories.elemental.cattle.io",
        "baremetalhosts.metal3.io", "datavolumes.cdi.kubevirt.io",
        "virtualmachines.kubevirt.io", "nvclusterrolesecurityrules.neuvector.com",
        "engines.longhorn.io", "widgets.example.com">> }

DefinitionLists ==
    { [i \in 1..Len(names) |-> DefinitionDoc(names[i])] : names \in DefinitionNameLists }

DeploymentDoc(namespace, name, images) ==
    [apiVersion |-> "apps/v1", kind |-> "Deployment",
     metadata |-> [name |-> name, namespace |-> namespace],
     spec |-> [template |-> [spec |-> [containers |->
                 [i \in 1..Len(images) |-> [name |-> "c", image |-> images[i]]]]]]]

DeploymentLists ==
    LET rancher == DeploymentDoc("cattle-system", "rancher",
                                 <<"nginx:latest", "rancher/rancher:v2.9.1">>)
        webhook == DeploymentDoc("cattle-system", "rancher-webhook",
                       <<"registry.suse.com/rancher/rancher-webhook:v0.5.0-sha256.1">>)
        longhorn == DeploymentDoc("longhorn-system", "longhorn-ui",
                       <<"registry.suse.com/longhornio/longhorn-ui:v1.7.2">>)
        elsewhere == DeploymentDoc("default", "rancher", <<"nginx:latest">>)
        untagged == DeploymentDoc("cattle-system", "rancher",
                                  <<"vcr.example.io/rancher/rancher">>)
    IN  { <<>>, <<elsewhere>>, <<rancher>>, <<webhook>>, <<longhorn>>, <<untagged>>,
          <<longhorn, rancher>>, <<elsewhere, webhook, rancher>>,
          <<rancher, webhook, longhorn>> }

PodDoc(name, images) ==
    [apiVersion |-> "v1", kind |-> "Pod",
     metadata |-> [name |-> name, namespace |-> "default"],
     spec |-> [containers |->
                 [i \in 1..Len(images) |-> [name |-> "c", image |-> images[i]]]]]

PodLists ==
    { <<PodDoc("web", <<"nginx:latest">>)>>,
      <<PodDoc("web", <<"nginx:latest">>),
        PodDoc("tools", <<"registry.opensuse.org/tools/busybox", "nginx:latest">>)>> }

\* a HashMap with the key only when the kind was collected
Entry1(key, option) == IF option.some THEN (key :> option.value) ELSE <<>>

Optional(S) == {None} \cup {Some(x) : x \in S}

InitDetect ==
    /\ pc = "cluster"
    /\ abort = ""
    /\ namespaces_arg = <<>>
    /\ include_custom = TRUE
    /\ raw = FALSE
    /\ cluster_namespaces = <<"default">>
    /\ requested = <<"default">>
    /\ verified = <<"default">>
    /\ kindIdx = Len(NamespacedKinds) + 1
    /\ crds = <<>>
    /\ crdIdx = 1
    /\ all_custom_resources = EmptyMap
    /\ crLog = <<>>
    /\ discoveryFetches = <<>>
    /\ clusterIdx = Len(ClusterKinds) + 2
    /\ saveIdx = 1
    /\ files = EmptyMap
    /\ total_sanitization_stats = NewStats
    /\ listCalls = <<>>
    /\ contained = {}
    /\ edge_analysis = NotAnalysed
    /\ document = NoDocument
    /\ passes = <<>>
    /\ sanitization_stats = NewStats
    /\ \/ /\ disable_suse_edge_analysis = FALSE
          /\ \E roles \in Optional(ClusterRoleLists), nodes \in Optional(NodeLists),
                definitions \in Optional(DefinitionLists) :
                cluster_resources = Entry1("clusterroles", roles)
                                    @@ Entry1("nodes", nodes)
                                    @@ Entry1("customresourcedefinitions", definitions)
          /\ \E deployments \in Optional(DeploymentLists),
                pods \in Optional(PodLists) :
                namespaced_resources = Entry1("deployments", deployments)
                                       @@ Entry1("pods", pods)
       \/ /\ disable_suse_edge_analysis = TRUE
          /\ cluster_resources =
                ("clusterroles" :> <<ClusterRole("system:k3s-controller")>>)
          /\ namespaced_resources = EmptyMap

NextDetect == FinishCollect

SpecDetect == InitDetect /\ [][NextDetect]_vars

(***************************************************************************)
(* Properties of the detector                                              *)
(***************************************************************************)
DocsOf(map, key) == IF Has(map, key) THEN map[key] ELSE <<>>

ImagesOf(resource) ==
    LET containers == extract_containers_from_resource(resource)
    IN  IF containers.some
        THEN {containers.value[i].image : i \in 1..Len(containers.value)}
        ELSE {}

\* none of the four signals of the detector is in the collected maps
NoSignal ==
    /\ \A i \in 1..Len(DocsOf(cluster_resources, "clusterroles")) :
          cluster_resources["clusterroles"][i].metadata.name # "system:k3s-controller"
    /\ \A i \in 1..Len(DocsOf(cluster_resources, "nodes")) :
          LET node == cluster_resources["nodes"][i]
          IN  /\ ~LabelledRke2(node)
              /\ KubeletVersion(node).some =>
                    ~StrContains(KubeletVersion(node).value, "rke2")
    /\ \A i \in 1..Len(DocsOf(cluster_resources, "customresourcedefinitions")) :
          \A e \in 1..Len(suse_edge_crds) :
             ~StrContains(cluster_resources["customresourcedefinitions"][i].metadata.name,
                          suse_edge_crds[e][1])
    /\ \A i \in 1..Len(DocsOf(namespaced_resources, "deployments")) :
          LET d == namespaced_resources["deployments"][i]
          IN  /\ ~(d.metadata.namespace = "cattle-system"
                   /\ StrContains(d.metadata.name, "rancher"))
              /\ ~(d.metadata.namespace = "longhorn-system"
                   /\ StrContains(d.metadata.name, "longhorn"))
    /\ \A key \in {"pods", "deployments"} :
          \A i \in 1..Len(DocsOf(namespaced_resources, key)) :
             \A image \in ImagesOf(namespaced_resources[key][i]) :
                /\ ~StartsWith(image, "registry.suse.com")
                /\ ~StartsWith(image, "registry.opensuse.org")

\* C18: Whenever the detector is run it yields a report; when the collected
\* maps hold no signal, and in particular when both are empty, the report
\* has no observation, total count 0, the confidence label
\* "None - Standard Kubernetes", which is not "Minimal", and no distribution
\* name; and only then is the report without observations.
C18_EmptyReport ==
    (pc = "save" /\ ~disable_suse_edge_analysis) =>
       /\ edge_analysis.some
       /\ NoSignal =>
             /\ edge_analysis.value.components = <<>>
             /\ edge_analysis.value.total_components = 0
             /\ edge_analysis.value.confidence = "None - Standard Kubernetes"
             /\ edge_analysis.value.confidence # "Minimal"
             /\ edge_analysis.value.kubernetes_distribution = None
       /\ ~NoSignal => edge_analysis.value.components # <<>>
       /\ (namespaced_resources = EmptyMap /\ cluster_resources = EmptyMap)
             => NoSignal

C18_Witness ==
    /\ pc = "save"
    /\ ~disable_suse_edge_analysis
    /\ namespaced_resources = EmptyMap
    /\ cluster_resources = EmptyMap
    /\ edge_analysis.some
    /\ edge_analysis.value.components = <<>>
    /\ edge_analysis.value.confidence = "None - Standard Kubernetes"

C18_WitnessDocuments ==
    /\ pc = "save"
    /\ ~disable_suse_edge_analysis
    /\ NoSignal
    /\ Len(DocsOf(cluster_resources, "nodes")) = 2
    /\ Len(DocsOf(namespaced_resources, "deployments")) = 1
    /\ Len(DocsOf(cluster_resources, "customresourcedefinitions")) = 1
    /\ edge_analysis.value.components = <<>>

\* the positions of the distribution observations of a report
DistributionAt(components) ==
    {i \in 1..Len(components) : components[i].name \in {"K3s", "RKE2"}}

K3sRolePresent ==
    \E i \in 1..Len(DocsOf(cluster_resources, "clusterroles")) :
       cluster_resources["clusterroles"][i].metadata.name = "system:k3s-controller"

Rke2LabelPresent ==
    \E i \in 1..Len(DocsOf(cluster_resources, "nodes")) :
       LET labels == cluster_resources["nodes"][i].metadata.labels
       IN  \/ "rke2.io/hostname" \in DOMAIN labels
           \/ \E k \in DOMAIN labels : StrContains(labels[k], "rke2")

Rke2KubeletPresent ==
    \E i \in 1..Len(DocsOf(cluster_resources, "nodes")) :
       LET node == cluster_resources["nodes"][i]
       IN  /\ Has(node, "status")
           /\ StrContains(node.status.nodeInfo.kubeletVersion, "rke2")

\* C19: A report has at most one distribution observation; when it has one
\* it is the first observation and the report's distribution name is its
\* name, and when it has none the report has no distribution name. The
\* observation is K3s whenever a cluster role is named exactly
\* system:k3s-controller, whatever the nodes say; otherwise RKE2 by node
\* label whenever a node carries an RKE2 label, whatever the kubelet
\* versions; otherwise RKE2 by kubelet version when one contains "rke2";
\* otherwise there is none.
C19_OneDistribution ==
    (pc = "save" /\ ~disable_suse_edge_analysis) =>
       LET report == edge_analysis.value
           at == DistributionAt(report.components)
           first == report.components[1]
       IN  /\ Cardinality(at) <= 1
           /\ at \subseteq {1}
           /\ report.kubernetes_distribution =
                 (IF at = {} THEN None ELSE Some(first.name))
           /\ (at # {}) = (K3sRolePresent \/ Rke2LabelPresent \/ Rke2KubeletPresent)
           /\ K3sRolePresent =>
                 /\ first.name = "K3s"
                 /\ first.found_in = <<"Detected via cluster roles and node version">>
           /\ (~K3sRolePresent /\ Rke2LabelPresent) =>
                 /\ first.name = "RKE2"
                 /\ first.found_in = <<"Detected via node labels and version">>
           /\ (~K3sRolePresent /\ ~Rke2LabelPresent /\ Rke2KubeletPresent) =>
                 /\ first.name = "RKE2"
                 /\ first.found_in = <<"Detected via kubelet version">>

C19_Witness ==
    /\ pc = "save"
    /\ ~disable_suse_edge_analysis
    /\ K3sRolePresent
    /\ Rke2LabelPresent
    /\ Rke2KubeletPresent
    /\ Len(edge_analysis.value.components) >= 3
    /\ edge_analysis.value.components[1].name = "K3s"
    /\ edge_analysis.value.kubernetes_distribution = Some("K3s")

C19_WitnessLabelOverKubelet ==
    /\ pc = "save"
    /\ ~K3sRolePresent
    /\ Len(DocsOf(cluster_resources, "nodes")) = 2
    /\ cluster_resources["nodes"][1].metadata.name = "rke2-kubelet"
    /\ cluster_resources["nodes"][2].metadata.name = "rke2-value"
    /\ edge_analysis.value.components[1].found_in =
          <<"Detected via node labels and version">>

IsDistributionObservation(c) == c.name \in {"K3s", "RKE2"}

IsRegistryObservation(c) == c.name = "SUSE Container Images"

\* what a definition-group observation says it was found in
DefinitionFoundIn == { <<ToString(n) \o " CRDs detected">> : n \in 1..8 }

IsDefinitionObservation(c) == c.found_in \in DefinitionFoundIn

IsDeploymentObservation(c) ==
    /\ ~IsDistributionObservation(c)
    /\ ~IsRegistryObservation(c)
    /\ ~IsDefinitionObservation(c)

CountOf(components, kind) ==
    Cardinality({i \in 1..Len(components) :
                   CASE kind = "distribution" -> IsDistributionObservation(components[i])
                     [] kind = "definition" -> IsDefinitionObservation(components[i])
                     [] kind = "deployment" -> IsDeploymentObservation(components[i])
                     [] kind = "registry" -> IsRegistryObservation(components[i])})

ScoreOf(components) ==
    20 * (IF CountOf(components, "distribution") > 0 THEN 1 ELSE 0)
    + 15 * CountOf(components, "definition")
    + 10 * CountOf(components, "deployment")
    + 5 * (IF CountOf(components, "registry") > 0 THEN 1 ELSE 0)

\* C20: The confidence label of a report with observations is the first row
\* that matches among: score >= 60 and count >= 5, "Very High"; score >= 40
\* and count >= 3, "High"; score >= 20 and count >= 2, "Medium"; score >= 10
\* and count >= 1, "Low"; and "Minimal" when none does, where score is 20
\* for a distribution observation, plus 15 for each definition-group
\* observation, plus 10 for each deployment observation, plus 5 for the
\* registry observation, and count is the number of observations.
C20_ConfidenceTable ==
    (pc = "save" /\ ~disable_suse_edge_analysis
       /\ edge_analysis.value.components # <<>>) =>
       LET report == edge_analysis.value
           score == ScoreOf(report.components)
           count == Len(report.components)
       IN  /\ report.total_components = count
           /\ report.confidence =
                 (CASE score >= 60 /\ count >= 5 -> "Very High"
                    [] ~(score >= 60 /\ count >= 5)
                       /\ score >= 40 /\ count >= 3 -> "High"
                    [] ~(score >= 40 /\ count >= 3)
                       /\ score >= 20 /\ count >= 2 -> "Medium"
                    [] ~(score >= 20 /\ count >= 2)
                       /\ score >= 10 /\ count >= 1 -> "Low"
                    [] OTHER -> "Minimal")

C20_Witness ==
    /\ pc = "save"
    /\ ~disable_suse_edge_analysis
    /\ ScoreOf(edge_analysis.value.components) = 60
    /\ Len(edge_analysis.value.components) = 4
    /\ edge_analysis.value.confidence = "High"

C20_WitnessVeryHigh ==
    /\ pc = "save"
    /\ ~disable_suse_edge_analysis
    /\ CountOf(edge_analysis.value.components, "distribution") = 1
    /\ CountOf(edge_analysis.value.components, "definition") = 7
    /\ CountOf(edge_analysis.value.components, "deployment") = 3
    /\ CountOf(edge_analysis.value.components, "registry") = 1
    /\ edge_analysis.value.confidence = "Very High"

C20_WitnessMinimal ==
    /\ pc = "save"
    /\ ~disable_suse_edge_analysis
    /\ ScoreOf(edge_analysis.value.components) = 5
    /\ edge_analysis.value.confidence = "Minimal"

(***************************************************************************)
(* Properties of the save pass                                             *)
(***************************************************************************)
\* C17: No save step changes the collected namespaced or cluster-scoped map
\* or the report; and the report is the report of the detector for the
\* collected maps as they are after the step, a value that does not depend
\* on the raw flag, so a raw and a sanitized run over the same collected
\* state carry the same report.
C17_SaveWorksOnCopy ==
    [][ pc = "save" =>
          /\ namespaced_resources' = namespaced_resources
          /\ cluster_resources' = cluster_resources
          /\ edge_analysis' = edge_analysis
          /\ edge_analysis' = suse_edge_analysis(disable_suse_edge_analysis,
                                                 namespaced_resources',
                                                 cluster_resources') ]_vars

C17_Witness ==
    /\ pc = "done"
    /\ ~raw
    /\ Has(cluster_resources, "nodes")
    /\ Len(cluster_resources["nodes"]) = 1
    /\ Has(cluster_resources["nodes"][1], "status")
    /\ FilePath("cluster-wide", "nodes", "n1") \in DOMAIN files
    /\ ~Has(files[FilePath("cluster-wide", "nodes", "n1")], "status")
    /\ edge_analysis.value.components[1].name = "K3s"
    /\ edge_analysis.value.components[1].version = Some("v1.30.8+k3s1")

(***************************************************************************)
(* Properties of the report's topology and versions                        *)
(***************************************************************************)
\* an observation of the given name is among the report's observations
Observed(name) ==
    \E i \in 1..Len(edge_analysis.value.components) :
       edge_analysis.value.components[i].name = name

\* C21: The topology label of a report with observations is "Management
\* Cluster" when a Rancher and a Metal3 observation are both present,
\* "Elemental Management Cluster" when Rancher and Elemental are present
\* without Metal3, "Rancher Management Cluster" when Rancher is present
\* without Metal3 and Elemental, "Downstream Cluster" when Rancher is absent
\* and a distribution observation is present, and "Standalone Cluster" in
\* every other case.
C21_DeploymentTopology ==
    (pc = "save" /\ ~disable_suse_edge_analysis
       /\ edge_analysis.value.components # <<>>) =>
       LET rancher == Observed("SUSE Rancher Prime")
           metal3 == Observed("Metal3")
           elemental == Observed("Elemental")
           distribution == Observed("K3s") \/ Observed("RKE2")
       IN  edge_analysis.value.deployment_type =
              (CASE rancher /\ metal3 -> "Management Cluster"
                 [] rancher /\ ~metal3 /\ elemental -> "Elemental Management Cluster"
                 [] rancher /\ ~metal3 /\ ~elemental -> "Rancher Management Cluster"
                 [] ~rancher /\ distribution -> "Downstream Cluster"
                 [] OTHER -> "Standalone Cluster")

C21_Witness ==
    /\ pc = "save"
    /\ ~disable_suse_edge_analysis
    /\ Observed("SUSE Rancher Prime")
    /\ Observed("Metal3")
    /\ Observed("Elemental")
    /\ Observed("RKE2")
    /\ edge_analysis.value.deployment_type = "Management Cluster"

C21_WitnessElemental ==
    /\ pc = "save"
    /\ ~disable_suse_edge_analysis
    /\ Observed("SUSE Rancher Prime")
    /\ Observed("Elemental")
    /\ edge_analysis.value.deployment_type = "Elemental Management Cluster"

C21_WitnessStandalone ==
    /\ pc = "save"
    /\ ~disable_suse_edge_analysis
    /\ Observed("Metal3")
    /\ ~Observed("SUSE Rancher Prime")
    /\ edge_analysis.value.deployment_type = "Standalone Cluster"

\* the kubelet versions, among the collected nodes, that contain the pattern
KubeletVersionsWith(pattern) ==
    { KubeletVersion(cluster_resources["nodes"][i]).value :
        i \in {j \in 1..Len(DocsOf(cluster_resources, "nodes")) :
                 /\ KubeletVersion(cluster_resources["nodes"][j]).some
                 /\ StrContains(KubeletVersion(cluster_resources["nodes"][j]).value,
                                pattern)} }

\* no deployment in the namespace and with the name part that make it a
\* Rancher or a Longhorn observation, and no image of a SUSE registry
NoDeploymentSignal ==
    /\ \A i \in 1..Len(DocsOf(namespaced_resources, "deployments")) :
          LET d == namespaced_resources["deployments"][i]
          IN  /\ ~(d.metadata.namespace = "cattle-system"
                   /\ StrContains(d.metadata.name, "rancher"))
              /\ ~(d.metadata.namespace = "longhorn-system"
                   /\ StrContains(d.metadata.name, "longhorn"))
    /\ \A key \in {"pods", "deployments"} :
          \A i \in 1..Len(DocsOf(namespaced_resources, key)) :
             \A image \in ImagesOf(namespaced_resources[key][i]) :
                \A reg \in suse_registries : ~StartsWith(image, reg)

\* cluster roles [system:k3s-controller], one node with kubelet version
\* v1.30.8+k3s1, one longhorn.io definition, no matching deployment
K3sLonghornScenario ==
    /\ DocsOf(cluster_resources, "clusterroles")
          = <<ClusterRole("system:k3s-controller")>>
    /\ Len(DocsOf(cluster_resources, "nodes")) = 1
    /\ KubeletVersion(cluster_resources["nodes"][1]) = Some("v1.30.8+k3s1")
    /\ DocsOf(cluster_resources, "customresourcedefinitions")
          = <<DefinitionDoc("volumes.longhorn.io")>>
    /\ NoDeploymentSignal

\* C22: When a cluster role named system:k3s-controller is collected, the
\* first observation is K3s and its version is the kubelet version of a
\* collected node whose kubelet version contains "k3s" when there is such a
\* node, and "detected" when there is none; and for cluster roles
\* [system:k3s-controller], one node with kubelet version v1.30.8+k3s1, one
\* longhorn.io definition and no matching deployment, the observations are
\* K3s with version v1.30.8+k3s1 followed by SUSE Storage (Longhorn) from
\* the definition-group signal, the topology is "Downstream Cluster" and
\* the confidence is "Low" or higher.
C22_K3sVersion ==
    (pc = "save" /\ ~disable_suse_edge_analysis /\ K3sRolePresent) =>
       LET report == edge_analysis.value
           k3s == report.components[1]
       IN  /\ k3s.name = "K3s"
           /\ k3s.version.some
           /\ KubeletVersionsWith("k3s") # {}
                 => k3s.version.value \in KubeletVersionsWith("k3s")
           /\ KubeletVersionsWith("k3s") = {}
                 => k3s.version.value = "detected"
           /\ K3sLonghornScenario =>
                 /\ Len(report.components) = 2
                 /\ k3s.version = Some("v1.30.8+k3s1")
                 /\ report.components[2].name = "SUSE Storage (Longhorn)"
                 /\ report.components[2].found_in = <<"1 CRDs detected">>
                 /\ report.deployment_type = "Downstream Cluster"
                 /\ report.confidence \in {"Low", "Medium", "High", "Very High"}

C22_Witness ==
    /\ pc = "save"
    /\ ~disable_suse_edge_analysis
    /\ K3sLonghornScenario
    /\ Len(edge_analysis.value.components) = 2
    /\ edge_analysis.value.components[1].version = Some("v1.30.8+k3s1")
    /\ edge_analysis.value.confidence = "Medium"

C22_WitnessSecondNode ==
    /\ pc = "save"
    /\ ~disable_suse_edge_analysis
    /\ K3sRolePresent
    /\ Len(DocsOf(cluster_resources, "nodes")) = 2
    /\ KubeletVersion(cluster_resources["nodes"][1]) = Some("v1.29.0")
    /\ edge_analysis.value.components[1].version = Some("v1.30.8+k3s1")

C22_WitnessPlaceholder ==
    /\ pc = "save"
    /\ ~disable_suse_edge_analysis
    /\ K3sRolePresent
    /\ Len(DocsOf(cluster_resources, "nodes")) = 1
    /\ KubeletVersion(cluster_resources["nodes"][1]) = Some("v1.30.4+rke2r1")
    /\ edge_analysis.value.components[1].version = Some("detected")

\* the tag of an image reference, the part after the ':' that follows the
\* repository, and none for a reference without one
TagOf(image) ==
    CASE image = "rancher/rancher:v2.9.1" -> Some("v2.9.1")
      [] image = "registry.suse.com/rancher/rancher-webhook:v0.5.0-sha256.1"
            -> Some("v0.5.0-sha256.1")
      [] image = "registry.suse.com/longhornio/longhorn-ui:v1.7.2" -> Some("v1.7.2")
      [] image = "nginx:latest" -> Some("latest")
      [] image = "registry.opensuse.org/tools/busybox" -> None
      [] image = "vcr.example.io/rancher/rancher" -> None

VersionTag(image) ==
    /\ TagOf(image).some
    /\ StartsWith(TagOf(image).value, "v")
    /\ StrContains(TagOf(image).value, ".")
    /\ ~StrContains(TagOf(image).value, "sha256")

\* the tag of the first container image of the deployment that has a
\* version tag, and none when no image has one
FirstVersionTag(deployment) ==
    LET containers == deployment.spec.template.spec.containers
        hits == {i \in 1..Len(containers) : VersionTag(containers[i].image)}
    IN  IF hits = {} THEN None ELSE TagOf(containers[MinOf(hits)].image)

RancherDeployments ==
    LET deployments == DocsOf(namespaced_resources, "deployments")
    IN  {i \in 1..Len(deployments) :
           /\ deployments[i].metadata.namespace = "cattle-system"
           /\ StrContains(deployments[i].metadata.name, "rancher")}

RancherObservations ==
    {i \in 1..Len(edge_analysis.value.components) :
       edge_analysis.value.components[i].name = "SUSE Rancher Prime"}

\* C23: Every collected deployment in namespace cattle-system whose name
\* contains "rancher" yields a "SUSE Rancher Prime" observation, found in
\* cattle-system/<name>, whose version is the tag of the deployment's first
\* container image whose tag starts with "v", contains "." and does not
\* contain "sha256", and none when no image has such a tag; there are as
\* many Rancher observations as such deployments; and when a Metal3
\* definition is collected as well the topology is "Management Cluster".
C23_RancherVersion ==
    (pc = "save" /\ ~disable_suse_edge_analysis) =>
       LET report == edge_analysis.value
           deployments == DocsOf(namespaced_resources, "deployments")
       IN  /\ Cardinality(RancherObservations) = Cardinality(RancherDeployments)
           /\ \A d \in RancherDeployments :
                 \E c \in RancherObservations :
                    /\ report.components[c].found_in
                          = <<"cattle-system/" \o deployments[d].metadata.name>>
                    /\ report.components[c].version = FirstVersionTag(deployments[d])
           /\ (RancherDeployments # {} /\ Observed("Metal3"))
                 => report.deployment_type = "Management Cluster"

\* C23, for deployments all of whose images carry a tag: the statement of
\* C23 holds.
C23_RancherVersionOfTaggedImages ==
    (\A i \in RancherDeployments :
        \A image \in ImagesOf(namespaced_resources["deployments"][i]) :
           TagOf(image).some)
       => C23_RancherVersion

C23_WitnessManagement ==
    /\ pc = "save"
    /\ ~disable_suse_edge_analysis
    /\ Observed("Metal3")
    /\ \E c \in RancherObservations :
          /\ edge_analysis.value.components[c].found_in = <<"cattle-system/rancher">>
          /\ edge_analysis.value.components[c].version = Some("v2.9.1")
    /\ edge_analysis.value.deployment_type = "Management Cluster"

\* the positions of the collected nodes that carry an RKE2 label
LabelledNodes ==
    {i \in 1..Len(DocsOf(cluster_resources, "nodes")) :
       LabelledRke2(cluster_resources["nodes"][i])}

\* the version a single node gives: its kubelet version, and "detected"
\* when it has none
VersionOfNode(node) ==
    IF KubeletVersion(node).some THEN KubeletVersion(node) ELSE Some("detected")

\* C24: When RKE2 is detected through a node label (no K3s cluster role, and
\* a node with the label key rke2.io/hostname or a label value containing
\* "rke2"), the version of the RKE2 observation is the kubelet version of
\* the first labelled node, wherever that node stands in the node list.
C24_Rke2VersionOfLabelledNode ==
    (pc = "save" /\ ~disable_suse_edge_analysis
       /\ ~K3sRolePresent /\ LabelledNodes # {}) =>
       LET rke2 == edge_analysis.value.components[1]
       IN  /\ rke2.name = "RKE2"
           /\ rke2.found_in = <<"Detected via node labels and version">>
           /\ rke2.version =
                 VersionOfNode(cluster_resources["nodes"][MinOf(LabelledNodes)])

\* C24, weakened to what holds: the version is the kubelet version of the
\* first collected node that has one, labelled or not, and "detected" when
\* no node has one; it is the labelled node's whenever the labelled node is
\* the first node of the list.
C24_Rke2VersionOfFirstNode ==
    (pc = "save" /\ ~disable_suse_edge_analysis
       /\ ~K3sRolePresent /\ LabelledNodes # {}) =>
       LET rke2 == edge_analysis.value.components[1]
           nodes == cluster_resources["nodes"]
           versioned == {i \in 1..Len(nodes) : KubeletVersion(nodes[i]).some}
       IN  /\ rke2.name = "RKE2"
           /\ rke2.version = (IF versioned = {} THEN Some("detected")
                              ELSE KubeletVersion(nodes[MinOf(versioned)]))
           /\ (1 \in LabelledNodes /\ 1 \in versioned)
                 => rke2.version = KubeletVersion(nodes[1])

\* the collected definitions whose name contains the substring
DefinitionsWith(substring) ==
    LET definitions == DocsOf(cluster_resources, "customresourcedefinitions")
    IN  {j \in 1..Len(definitions) :
           StrContains(definitions[j].metadata.name, substring)}

\* the observations of the definition-group signal that carry the name
DefinitionObservations(name) ==
    {i \in 1..Len(edge_analysis.value.components) :
       /\ IsDefinitionObservation(edge_analysis.value.components[i])
       /\ edge_analysis.value.components[i].name = name}

\* C25: For each of the seven table entries on its own, the report has
\* exactly one definition-group observation of the entry's name when at
\* least one collected definition name contains the entry's substring, and
\* it tells how many do; it has none when no name contains it. So there are
\* at most seven such observations, they stand in table order, and one
\* definition whose name contains several substrings, as
\* datavolumes.cdi.kubevirt.io contains kubevirt.io and cdi.kubevirt.io,
\* gives one observation for each entry it matches.
C25_DefinitionGroups ==
    (pc = "save" /\ ~disable_suse_edge_analysis) =>
       LET components == edge_analysis.value.components
       IN  \A observed \in { [e \in 1..Len(suse_edge_crds) |->
                                DefinitionObservations(suse_edge_crds[e][2])] } :
              /\ \A e \in 1..Len(suse_edge_crds) :
                    \A matching \in { Cardinality(DefinitionsWith(suse_edge_crds[e][1])) } :
                       /\ Cardinality(observed[e]) = (IF matching = 0 THEN 0 ELSE 1)
                       /\ \A i \in observed[e] :
                             /\ components[i].found_in =
                                   <<ToString(matching) \o " CRDs detected">>
                             /\ components[i].category = suse_edge_crds[e][3]
                             /\ components[i].version = None
              /\ CountOf(components, "definition") <= 7
              /\ \A e1, e2 \in 1..Len(suse_edge_crds) :
                    e1 < e2 =>
                       \A i1 \in observed[e1], i2 \in observed[e2] : i1 < i2

C25_Witness ==
    /\ pc = "save"
    /\ ~disable_suse_edge_analysis
    /\ DocsOf(cluster_resources, "customresourcedefinitions")
          = <<DefinitionDoc("datavolumes.cdi.kubevirt.io")>>
    /\ DefinitionObservations("KubeVirt") # {}
    /\ DefinitionObservations("Containerized Data Importer") # {}
    /\ CountOf(edge_analysis.value.components, "definition") = 2

C25_WitnessSeven ==
    /\ pc = "save"
    /\ ~disable_suse_edge_analysis
    /\ Len(DocsOf(cluster_resources, "customresourcedefinitions")) = 8
    /\ CountOf(edge_analysis.value.components, "definition") = 7
    /\ \E i \in DefinitionObservations("KubeVirt") :
          edge_analysis.value.components[i].found_in = <<"2 CRDs detected">>

(***************************************************************************)
(* The counters on their own: the record operations of a save pass         *)
(* (output.rs:362-390) in any order the mode allows, and main's add of a   *)
(* finished pass to the run's total (main.rs:473, 530).                    *)
(***************************************************************************)
ResourceIdentifiers == {"pods/web (default)", "nodes/n1"}

InitStats ==
    /\ InitCommon
    /\ namespaces_arg = <<>>
    /\ include_custom = FALSE
    /\ raw \in BOOLEAN
    /\ disable_suse_edge_analysis = FALSE
    /\ cluster_namespaces = <<>>
    /\ document = NoDocument
    /\ passes = <<>>
    /\ sanitization_stats = NewStats

Recorded ==
    total_sanitization_stats.total_processed + sanitization_stats.total_processed

\* output.rs:372: the sanitizer returned Ok
RecordSanitized ==
    /\ ~raw
    /\ Recorded < MaxRecorded
    /\ sanitization_stats' = record_sanitized(sanitization_stats)
    /\ UNCHANGED <<pc, abort, argVars, nsVars, builtinVars, crVars, saveVars,
                   listCalls, contained, reportVars, document, passes>>

\* output.rs:376-386: the sanitizer returned Err
RecordSkipped ==
    /\ ~raw
    /\ Recorded < MaxRecorded
    /\ \E resource_id \in ResourceIdentifiers :
          sanitization_stats' = record_skipped(sanitization_stats, resource_id)
    /\ UNCHANGED <<pc, abort, argVars, nsVars, builtinVars, crVars, saveVars,
                   listCalls, contained, reportVars, document, passes>>

\* output.rs:388-390: raw mode
RecordRaw ==
    /\ raw
    /\ Recorded < MaxRecorded
    /\ sanitization_stats' = record_raw(sanitization_stats)
    /\ UNCHANGED <<pc, abort, argVars, nsVars, builtinVars, crVars, saveVars,
                   listCalls, contained, reportVars, document, passes>>

\* main.rs:473 and 530: the pass is over, its counters are added to the
\* total, and the next pass starts from SanitizationStats::new()
AddStats ==
    /\ total_sanitization_stats' = add(total_sanitization_stats, sanitization_stats)
    /\ sanitization_stats' = NewStats
    /\ UNCHANGED <<pc, abort, argVars, nsVars, builtinVars, crVars, saveIdx, files,
                   listCalls, contained, reportVars, document, passes>>

NextStats == RecordSanitized \/ RecordSkipped \/ RecordRaw \/ AddStats

SpecStats == InitStats /\ [][NextStats]_vars

(***************************************************************************)
(* Properties of the counters                                              *)
(***************************************************************************)
\* the identities between the counters of one SanitizationStats value
StatsIdentities(stats) ==
    /\ stats.total_skipped = Len(stats.skipped_resources)
    /\ ~raw => stats.total_processed = stats.total_sanitized + stats.total_skipped
    /\ raw => stats.total_sanitized = 0 /\ stats.total_skipped = 0

\* no counter of the value is lower afterwards, and the identifiers it had
\* are still the first ones it has
NotDecreased(before, after) ==
    /\ after.total_processed >= before.total_processed
    /\ after.total_sanitized >= before.total_sanitized
    /\ after.total_skipped >= before.total_skipped
    /\ Len(after.skipped_resources) >= Len(before.skipped_resources)
    /\ SubSeq(after.skipped_resources, 1, Len(before.skipped_resources))
          = before.skipped_resources

\* C26: The counters of a pass and of the run satisfy, after any sequence
\* of record and add operations: total_skipped is the number of skipped
\* identifiers; in sanitized mode total_processed = total_sanitized +
\* total_skipped; in raw mode total_sanitized = total_skipped = 0. No step
\* lowers a counter of the run's total or, within a pass, of the pass; and
\* a step that changes the total makes each of its counters the sum of the
\* total's and the pass's, and its identifiers the total's followed by the
\* pass's.
C26_StatsAdditive ==
    /\ [](StatsIdentities(total_sanitization_stats)
          /\ StatsIdentities(sanitization_stats))
    /\ [][ /\ NotDecreased(total_sanitization_stats, total_sanitization_stats')
           /\ sanitization_stats' # NewStats
                 => NotDecreased(sanitization_stats, sanitization_stats')
           /\ total_sanitization_stats' # total_sanitization_stats =>
                 /\ total_sanitization_stats'.total_processed =
                       total_sanitization_stats.total_processed
                       + sanitization_stats.total_processed
                 /\ total_sanitization_stats'.total_sanitized =
                       total_sanitization_stats.total_sanitized
                       + sanitization_stats.total_sanitized
                 /\ total_sanitization_stats'.total_skipped =
                       total_sanitization_stats.total_skipped
                       + sanitization_stats.total_skipped
                 /\ total_sanitization_stats'.skipped_resources =
                       total_sanitization_stats.skipped_resources
                       \o sanitization_stats.skipped_resources ]_vars

C26_Witness ==
    /\ ~raw
    /\ total_sanitization_stats.total_processed = 2
    /\ total_sanitization_stats.total_sanitized = 1
    /\ total_sanitization_stats.skipped_resources = <<"nodes/n1">>
    /\ sanitization_stats.skipped_resources = <<"pods/web (default)">>

C26_WitnessRaw ==
    /\ raw
    /\ total_sanitization_stats.total_processed = 2
    /\ sanitization_stats.total_processed = 1

(***************************************************************************)
(* Properties of what the run saves                                        *)
(***************************************************************************)
\* the directory an instance of a custom type belongs to: its namespace,
\* and the cluster-wide one for a document without metadata.namespace
DirectoryOf(instance) ==
    IF Has(instance.metadata, "namespace") THEN instance.metadata.namespace
    ELSE "cluster-wide"

\* the instance was handed to the save step: its file is in the output
SavedInstance(cr_type, instance) ==
    FilePath(DirectoryOf(instance), cr_type, instance.metadata.name) \in DOMAIN files

\* the number of documents of all the types of a collected map
RECURSIVE DocumentCount(_)
DocumentCount(map) ==
    IF DOMAIN map = {} THEN 0
    ELSE LET k == CHOOSE x \in DOMAIN map : TRUE
         IN  Len(map[k]) + DocumentCount([x \in DOMAIN map \ {k} |-> map[x]])

\* C27: When the run is over, every custom resource instance the resolver
\* collected, of a namespaced or of a cluster-scoped type, has been handed
\* to the save step, under its namespace or cluster-wide, and the run has
\* processed each collected document exactly once.
C27_CustomInstancesSaved ==
    pc = "done" =>
       /\ \A cr_type \in DOMAIN all_custom_resources :
             \A i \in 1..Len(all_custom_resources[cr_type]) :
                SavedInstance(cr_type, all_custom_resources[cr_type][i])
       /\ total_sanitization_stats.total_processed =
             DocumentCount(namespaced_resources) + DocumentCount(cluster_resources)

\* C27, for the instances that carry metadata.namespace: each has been
\* handed to the save step under its namespace when the run is over, and
\* the documents processed are the collected ones less the custom instances
\* without a namespace.
C27_NamespacedInstancesSaved ==
    pc = "done" =>
       LET unsaved ==
             UNION { { <<cr_type, i>> :
                         i \in {j \in 1..Len(all_custom_resources[cr_type]) :
                                  ~Has(all_custom_resources[cr_type][j].metadata,
                                       "namespace")} } :
                     cr_type \in DOMAIN all_custom_resources }
       IN  /\ \A cr_type \in DOMAIN all_custom_resources :
                 \A i \in 1..Len(all_custom_resources[cr_type]) :
                    LET instance == all_custom_resources[cr_type][i]
                    IN  Has(instance.metadata, "namespace") =
                           SavedInstance(cr_type, instance)
           /\ total_sanitization_stats.total_processed =
                 DocumentCount(namespaced_resources) + DocumentCount(cluster_resources)
                 - Cardinality(unsaved)

C27_WitnessNamespaced ==
    /\ pc = "done"
    /\ "widgets.example.com" \in DOMAIN all_custom_resources
    /\ Len(all_custom_resources["widgets.example.com"]) = 2
    /\ FilePath("ns1", "widgets.example.com", "w1") \in DOMAIN files
    /\ FilePath("ns2", "widgets.example.com", "w2") \in DOMAIN files

(***************************************************************************)
(* Properties of the keys of the custom resource map                       *)
(***************************************************************************)
\* the group a collected instance belongs to, read off its apiVersion
GroupOfInstance(instance) ==
    IF instance.apiVersion = "v1" THEN ""
    ELSE CHOOSE group \in {"example.com", "other.io"} :
            instance.apiVersion = group \o "/v1"

\* the resolution listed only API resources of its descriptor's group, and
\* every instance it returned belongs to that group
OwnGroupOnly(e) ==
    /\ \A k \in 1..Len(e.resolved.calls) : e.resolved.calls[k].group = e.info.group
    /\ \A k \in 1..Len(e.resolved.instances) :
          GroupOfInstance(e.resolved.instances[k]) = e.info.group

\* C28: Every instance stored under a descriptor's key was listed from an
\* API resource of the descriptor's group and belongs to that group: each
\* resolution that collected instances listed only its own group, and the
\* instances under each key of the map are of the group the key names,
\* also when another group has a definition of the same plural and scope.
C28_KeysHoldOwnGroup ==
    /\ \A e \in Collected : OwnGroupOnly(e)
    /\ \A e \in Collected :
          resource_key(e.info) \in DOMAIN all_custom_resources =>
             \A k \in 1..Len(all_custom_resources[resource_key(e.info)]) :
                GroupOfInstance(all_custom_resources[resource_key(e.info)][k])
                   = e.info.group

\* C28, for the resolutions that went through the constructed endpoint
\* (phase 1 failed): these list and return only their own group.
C28_ConstructedEndpointOwnGroup ==
    \A e \in Collected : e.resolved.phase1 = "failed" => OwnGroupOnly(e)

C28_WitnessConstructedEndpoint ==
    \E e \in Collected :
       /\ e.resolved.phase1 = "failed"
       /\ e.info.group = "other.io"
       /\ \E f \in Collected : f.info.group = "example.com" /\ f.info.plural = "widgets"

(***************************************************************************)
(* Properties of one save pass                                             *)
(***************************************************************************)
\* C29: After a save pass in sanitized mode over a list of one document,
\* total_processed is 1, the number of documents handed in, whether or not
\* the document has a metadata.name; the document is counted as exactly one
\* of sanitized or skipped; and the number of files written, the saved
\* count, equals total_sanitized.
C29_EveryDocumentCounted ==
    saveIdx = 2 =>
       /\ total_sanitization_stats.total_processed = 1
       /\ total_sanitization_stats.total_sanitized
          + total_sanitization_stats.total_skipped = 1
       /\ Cardinality(DOMAIN files) = total_sanitization_stats.total_sanitized

\* C29, counting only the documents that have a metadata.name: after the
\* pass total_processed is 1 for a document with a name and 0 for one
\* without, which is passed over without being counted or written.
C29_NamedDocumentsCounted ==
    saveIdx = 2 =>
       LET named == IF Has(document, "metadata") /\ Has(document.metadata, "name")
                    THEN 1 ELSE 0
       IN  /\ total_sanitization_stats.total_processed = named
           /\ total_sanitization_stats.total_sanitized
              + total_sanitization_stats.total_skipped = named
           /\ Cardinality(DOMAIN files) = total_sanitization_stats.total_sanitized

C29_WitnessNamed ==
    /\ saveIdx = 2
    /\ Has(document, "metadata")
    /\ Has(document.metadata, "name")
    /\ total_sanitization_stats.total_processed = 1
    /\ Cardinality(DOMAIN files) = 1

(***************************************************************************)
(* Properties of the weakest confidence label                              *)
(***************************************************************************)
\* C30: A report with observations has the confidence "Minimal" if and only
\* if its only observation is the registry-usage observation; a report
\* with a distribution, a definition-group or a deployment observation has
\* "Low", "Medium", "High" or "Very High"; and the total count of a report
\* is the number of its observations.
C30_MinimalOnlyForRegistry ==
    (pc = "save" /\ ~disable_suse_edge_analysis) =>
       LET report == edge_analysis.value
           components == report.components
           registry_only == /\ Len(components) = 1
                            /\ components[1].name = "SUSE Container Images"
       IN  /\ report.total_components = Len(components)
           /\ components # <<>> =>
                 /\ (report.confidence = "Minimal") = registry_only
                 /\ (\E i \in 1..Len(components) :
                        components[i].name # "SUSE Container Images")
                       => report.confidence \in {"Low", "Medium", "High", "Very High"}

C30_Witness ==
    /\ pc = "save"
    /\ ~disable_suse_edge_analysis
    /\ Len(edge_analysis.value.components) = 1
    /\ edge_analysis.value.components[1].name = "SUSE Container Images"
    /\ edge_analysis.value.components[1].found_in = <<"1 SUSE images in use">>
    /\ edge_analysis.value.total_components = 1
    /\ edge_analysis.value.confidence = "Minimal"

C30_WitnessDeploymentOnly ==
    /\ pc = "save"
    /\ ~disable_suse_edge_analysis
    /\ Len(edge_analysis.value.components) = 1
    /\ edge_analysis.value.components[1].name = "SUSE Rancher Prime"
    /\ edge_analysis.value.confidence = "Low"

====
